---------------------------- MODULE Spec2Model ----------------------------
(***************************************************************************)
(* Crunchyroll "subs on dubs": the metadata (/play) interceptor, the       *)
(* caption-script interceptor with its registry of pending rewrites, the   *)
(* timing reconciler and the timing codec of the script utilities.          *)
(*                                                                         *)
(* Strings are modelled by their structure.  A time string "H:MM:SS.CC"    *)
(* is the record of its four digit sequences (what split(':') and          *)
(* split('.') produce); a script line is the sequence of its comma         *)
(* separated fields; a script is the sequence of its CRLF separated lines  *)
(* together with its length in characters.                                 *)
(***************************************************************************)
EXTENDS Integers, Sequences, FiniteSets, TLC

VARIABLES
    INTERCEPT,  \* ScriptInterceptor._INTERCEPT: the registry, oldest first
    play,       \* the /play requests and their PlayInterceptor
    script,     \* the caption-asset requests and their ScriptInterceptor
    pure        \* inputs and results of the pure-function specifications

vars == <<INTERCEPT, play, script, pure>>

-----------------------------------------------------------------------------
(* Bounds of the model *)

MaxRequests == 2
MaxHours == 1
MaxRegistered == 52
MaxText == 4
MaxLines == 2
MaxDuplicated == 4
MaxInFlight == 3

-----------------------------------------------------------------------------
(* Constants of the program *)

MS_PER_HOUR == 60 * 60 * 1000
MS_PER_MINUTE == 60 * 1000
MS_PER_SECOND == 1000
MS_PER_CENTISECOND == 10

SCRIPT_MAX_ADJUST == 60000
SCRIPT_EMPTY_THRESHOLD == 7500
MAX_INTERCEPT == 50
ALT_LANG == "ja-JP"

-----------------------------------------------------------------------------
(* Timing codec: script_parse_time / script_render_time *)

\* Number(str) of a string of decimal digits
RECURSIVE Number(_)
Number(ds) ==
    IF ds = <<>> THEN 0
    ELSE 10 * Number(SubSeq(ds, 1, Len(ds) - 1)) + ds[Len(ds)]

\* String(n) of a natural number: its decimal digits
RECURSIVE String(_)
String(n) ==
    IF n < 10 THEN <<n>> ELSE String(n \div 10) \o <<n % 10>>

\* str.padStart(2, '0')
PadStart2(ds) == IF Len(ds) < 2 THEN <<0>> \o ds ELSE ds

\* a field that split(':') and split('.') cut into the four parts of a time
IsTimeStr(f) == DOMAIN f = {"h", "m", "s", "cs"}

script_parse_time(timestr) ==
    Number(timestr.h) * MS_PER_HOUR
    + Number(timestr.m) * MS_PER_MINUTE
    + Number(timestr.s) * MS_PER_SECOND
    + Number(timestr.cs) * MS_PER_CENTISECOND

\* "while (timems > unit) { count += 1; timems -= unit }": the count ...
RECURSIVE LoopCount(_, _)
LoopCount(timems, unit) ==
    IF timems > unit THEN 1 + LoopCount(timems - unit, unit) ELSE 0

\* ... and what is left of timems after the loop
RECURSIVE LoopRest(_, _)
LoopRest(timems, unit) ==
    IF timems > unit THEN LoopRest(timems - unit, unit) ELSE timems

\* a variant that renders the distance from zero of a negative time
script_render_time_mirrors(timems) ==
    LET t0 == IF timems < 0 THEN -timems ELSE timems
        hours == LoopCount(t0, MS_PER_HOUR)
        t1 == LoopRest(t0, MS_PER_HOUR)
        minutes == LoopCount(t1, MS_PER_MINUTE)
        t2 == LoopRest(t1, MS_PER_MINUTE)
        seconds == LoopCount(t2, MS_PER_SECOND)
        t3 == LoopRest(t2, MS_PER_SECOND)
        centiseconds == LoopCount(t3, MS_PER_CENTISECOND)
    IN  [h |-> String(hours),
         m |-> PadStart2(String(minutes)),
         s |-> PadStart2(String(seconds)),
         cs |-> PadStart2(String(centiseconds))]

script_render_time(timems) ==
    LET hours == LoopCount(timems, MS_PER_HOUR)
        t1 == LoopRest(timems, MS_PER_HOUR)
        minutes == LoopCount(t1, MS_PER_MINUTE)
        t2 == LoopRest(t1, MS_PER_MINUTE)
        seconds == LoopCount(t2, MS_PER_SECOND)
        t3 == LoopRest(t2, MS_PER_SECOND)
        centiseconds == LoopCount(t3, MS_PER_CENTISECOND)
    IN  [h |-> String(hours),
         m |-> PadStart2(String(minutes)),
         s |-> PadStart2(String(seconds)),
         cs |-> PadStart2(String(centiseconds))]

-----------------------------------------------------------------------------
(* Script text.  A field is a time string or [text |-> characters]; a word *)
(* of a header ("Dialogue: ", "Format: ", "Layer") counts as one character *)

\* line.startsWith("Dialogue: ")
StartsWithDialogue(line) ==
    /\ DOMAIN line[1] = {"text"}
    /\ line[1].text # <<>>
    /\ line[1].text[1] = "Dialogue: "

\* script.indexOf("Format: Layer,Start,End,") != -1
format_ok(body) ==
    \E n \in DOMAIN body.lines :
        LET line == body.lines[n]
        IN  \E i \in DOMAIN line :
                /\ i + 3 <= Len(line)
                /\ DOMAIN line[i] = {"text"}
                /\ Len(line[i].text) >= 2
                /\ SubSeq(line[i].text, Len(line[i].text) - 1, Len(line[i].text))
                       = <<"Format: ", "Layer">>
                /\ line[i + 1] = [text |-> <<"Start">>]
                /\ line[i + 2] = [text |-> <<"End">>]

\* script_parse_time throws a TypeError on a field that is missing (undefined)
\* or that split(':') does not cut into three parts
ParseTimeThrows(line, i) == i > Len(line) \/ ~IsTimeStr(line[i])

adjust_timestr(str, adjust) ==
    script_render_time(script_parse_time(str) + adjust)

AdjustLineThrows(line) ==
    StartsWithDialogue(line) /\ (ParseTimeThrows(line, 2) \/ ParseTimeThrows(line, 3))

\* a variant that adjusts fields[1] alone and leaves the end time as it is
adjust_line_start_only(line, adjust) ==
    IF ~StartsWithDialogue(line) THEN line
    ELSE [line EXCEPT ![2] = adjust_timestr(line[2], adjust)]

\* as if the line were cut with split(',', 10): the payload after a comma is lost
adjust_line_truncates(line, adjust) ==
    IF ~StartsWithDialogue(line) THEN line
    ELSE [SubSeq(line, 1, 10) EXCEPT ![2] = adjust_timestr(line[2], adjust),
                                     ![3] = adjust_timestr(line[3], adjust)]

\* fields = line.split(','); fields[1], fields[2] adjusted; fields.join(',')
adjust_line(line, adjust) ==
    IF ~StartsWithDialogue(line) THEN line
    ELSE [line EXCEPT ![2] = adjust_timestr(line[2], adjust),
                      ![3] = adjust_timestr(line[3], adjust)]

AdjustTimesThrows(body) ==
    format_ok(body) /\ \E n \in DOMAIN body.lines : AdjustLineThrows(body.lines[n])

\* a variant of adjust_times that rewrites the lines without the format check
adjust_times_unchecked(body, adjust) ==
    [body EXCEPT !.lines = [n \in DOMAIN body.lines |-> adjust_line(body.lines[n], adjust)]]

\* if (!this.format_ok(script)) return script; lines.map(adjust_line)
adjust_times(body, adjust) ==
    IF ~format_ok(body) THEN body
    ELSE [body EXCEPT !.lines =
              [n \in DOMAIN body.lines |-> adjust_line(body.lines[n], adjust)]]

-----------------------------------------------------------------------------
(* Dialogue matcher: script_normalize ... script_timing_adjust *)

CHARS ==
    {"A", "B", "C", "D", "E", "F", "G", "H", "I", "J", "K", "L", "M",
     "N", "O", "P", "Q", "R", "S", "T", "U", "V", "W", "X", "Y", "Z",
     "a", "b", "c", "d", "e", "f", "g", "h", "i", "j", "k", "l", "m",
     "n", "o", "p", "q", "r", "s", "t", "u", "v", "w", "x", "y", "z",
     "0", "1", "2", "3", "4", "5", "6", "7", "8", "9"}

\* a variant of the loop in which a backslash drops only itself
RECURSIVE NormalizeFrom_keeps_escaped(_, _, _)
NormalizeFrom_keeps_escaped(text, i, out) ==
    IF i > Len(text) THEN out
    ELSE IF text[i] = "\\" THEN NormalizeFrom_keeps_escaped(text, i + 1, out)
    ELSE IF text[i] = "{" THEN
        LET closing == {j \in i..Len(text) : text[j] = "}"}
            stop == IF closing = {} THEN Len(text) + 1
                    ELSE CHOOSE j \in closing : \A k \in closing : j <= k
        IN  NormalizeFrom_keeps_escaped(text, stop + 1, out)
    ELSE IF text[i] \in CHARS
         THEN NormalizeFrom_keeps_escaped(text, i + 1, Append(out, text[i]))
    ELSE NormalizeFrom_keeps_escaped(text, i + 1, out)

\* the for loop of script_normalize from index i on, with the output so far
RECURSIVE NormalizeFrom(_, _, _)
NormalizeFrom(text, i, out) ==
    IF i > Len(text) THEN out
    ELSE IF text[i] = "\\" THEN NormalizeFrom(text, i + 2, out)
    ELSE IF text[i] = "{" THEN
        LET closing == {j \in i..Len(text) : text[j] = "}"}
            stop == IF closing = {} THEN Len(text) + 1
                    ELSE CHOOSE j \in closing : \A k \in closing : j <= k
        IN  NormalizeFrom(text, stop + 1, out)
    ELSE IF text[i] \in CHARS THEN NormalizeFrom(text, i + 1, Append(out, text[i]))
    ELSE NormalizeFrom(text, i + 1, out)

script_normalize(text) == NormalizeFrom(text, 1, <<>>)

DigitChars(ds) ==
    [i \in DOMAIN ds |-> <<"0", "1", "2", "3", "4", "5", "6", "7", "8", "9">>[ds[i] + 1]]

\* the characters of one field of a line
FieldChars(f) ==
    IF IsTimeStr(f)
    THEN DigitChars(f.h) \o <<":">> \o DigitChars(f.m) \o <<":">>
         \o DigitChars(f.s) \o <<".">> \o DigitChars(f.cs)
    ELSE f.text

\* fields.join(',')
RECURSIVE JoinFields(_)
JoinFields(fields) ==
    IF fields = <<>> THEN <<>>
    ELSE IF Len(fields) = 1 THEN FieldChars(fields[1])
    ELSE FieldChars(fields[1]) \o <<",">> \o JoinFields(Tail(fields))

\* nine times "line = line.substring(line.indexOf(',') + 1)": a line with fewer
\* than nine commas is cut after its last comma and then left as it is
script_extract_text(line) ==
    LET skip == IF Len(line) - 1 < 9 THEN Len(line) - 1 ELSE 9
    IN  JoinFields(SubSeq(line, skip + 1, Len(line)))

DialogueLinesThrow(body) ==
    \E n \in DOMAIN body.lines :
        StartsWithDialogue(body.lines[n]) /\ ParseTimeThrows(body.lines[n], 2)

script_dialogue_lines(body) ==
    LET lines == SelectSeq(body.lines, StartsWithDialogue)
    IN  [n \in DOMAIN lines |->
            [raw |-> lines[n],
             text |-> script_normalize(script_extract_text(lines[n])),
             time |-> script_parse_time(lines[n][2])]]

\* a variant of the inner loop that keeps the last matching line of dialog2
RECURSIVE MatchInner_last(_, _, _)
MatchInner_last(line1, dialog2, j) ==
    IF j > Len(dialog2) THEN 0
    ELSE LET later == MatchInner_last(line1, dialog2, j + 1)
         IN  IF later # 0 THEN later
             ELSE IF line1.text = dialog2[j].text THEN j ELSE 0

\* the inner loop of script_match_text from index j on: the index of the
\* first line of dialog2 with the text of line1, or 0
RECURSIVE MatchInner(_, _, _)
MatchInner(line1, dialog2, j) ==
    IF j > Len(dialog2) THEN 0
    ELSE IF line1.text = dialog2[j].text THEN j
    ELSE MatchInner(line1, dialog2, j + 1)

\* the outer loop of script_match_text from index i on
RECURSIVE MatchOuter(_, _, _)
MatchOuter(dialog1, dialog2, i) ==
    IF i > Len(dialog1) THEN <<>>
    ELSE IF Len(dialog1[i].text) < 6 THEN MatchOuter(dialog1, dialog2, i + 1)
    ELSE LET j == MatchInner(dialog1[i], dialog2, 1)
         IN  IF j # 0 THEN <<i, j>> ELSE MatchOuter(dialog1, dialog2, i + 1)

\* the pair of indices script_match_text returns the lines of, or <<>> for null
script_match_text(script1, script2) ==
    MatchOuter(script_dialogue_lines(script1), script_dialogue_lines(script2), 1)

\* a nullable value is a sequence: <<>> is null, <<v>> is the value v
script_timing_adjust(script1, script2) ==
    LET matched == script_match_text(script1, script2)
    IN  IF matched = <<>> THEN <<>>
        ELSE <<script_dialogue_lines(script1)[matched[1]].time
               - script_dialogue_lines(script2)[matched[2]].time>>

-----------------------------------------------------------------------------
(* Timing reconciler: ScriptInterceptor.calculate_adjustment *)

Abs(x) == IF x < 0 THEN -x ELSE x

\* obj[key] of a caption map (the entries in insertion order): <<>> is undefined
Lookup(map, key) ==
    LET at == {i \in DOMAIN map : map[i].lang = key}
    IN  IF at = {} THEN <<>> ELSE <<map[CHOOSE i \in at : TRUE]>>

\* obj.hasOwnProperty(key)
HasOwnProperty(map, key) == \E i \in DOMAIN map : map[i].lang = key

\* a variant that subtracts the wrong way round
calculate_duration_adjustment_swapped(dub_duration, sub_duration) ==
    sub_duration - dub_duration

calculate_duration_adjustment(dub_duration, sub_duration) ==
    dub_duration - sub_duration

\* a variant that already discards a text offset exactly at the bound
calculate_script_adjustment_strict(duration_adjust, sub, alt_sub, dialogue, alt_dialogue) ==
    IF sub = <<>> \/ alt_sub = <<>> THEN <<>>
    ELSE IF sub[1].format # "ass" \/ alt_sub[1].format # "ass" THEN <<>>
    ELSE LET adjust == script_timing_adjust(dialogue[1], alt_dialogue[1])
         IN  IF adjust = <<>> THEN <<>>
             ELSE IF Abs(adjust[1] - duration_adjust) >= SCRIPT_MAX_ADJUST THEN <<>>
             ELSE adjust

\* sub, alt_sub: the entries of the dub language in the two snapshots;
\* dialogue, alt_dialogue: what ctx.dub_fetch and ctx.dub_alt_fetch resolved to
calculate_script_adjustment(duration_adjust, sub, alt_sub, dialogue, alt_dialogue) ==
    IF sub = <<>> \/ alt_sub = <<>> THEN <<>>
    ELSE IF sub[1].format # "ass" \/ alt_sub[1].format # "ass" THEN <<>>
    ELSE LET adjust == script_timing_adjust(dialogue[1], alt_dialogue[1])
         IN  IF adjust = <<>> THEN <<>>
             ELSE IF Abs(adjust[1] - duration_adjust) > SCRIPT_MAX_ADJUST THEN <<>>
             ELSE adjust

\* a variant that takes a zero text offset for an absent one: script_adjust || duration_adjust
calculate_adjustment_falsy(dub_duration, sub_duration, dub_lang, subs, alt_subs, dialogue, alt_dialogue) ==
    LET duration_adjust == calculate_duration_adjustment(dub_duration, sub_duration)
        script_adjust ==
            calculate_script_adjustment(duration_adjust, Lookup(subs, dub_lang),
                                        Lookup(alt_subs, dub_lang), dialogue, alt_dialogue)
    IN  IF script_adjust = <<>> \/ script_adjust = <<0>> THEN duration_adjust
        ELSE script_adjust[1]

calculate_adjustment(dub_duration, sub_duration, dub_lang, subs, alt_subs, dialogue, alt_dialogue) ==
    LET duration_adjust == calculate_duration_adjustment(dub_duration, sub_duration)
        script_adjust ==
            calculate_script_adjustment(duration_adjust, Lookup(subs, dub_lang),
                                        Lookup(alt_subs, dub_lang), dialogue, alt_dialogue)
    IN  IF script_adjust = <<>> THEN duration_adjust ELSE script_adjust[1]

-----------------------------------------------------------------------------
(* Scripts of the model *)

Text(chars) == [text |-> chars]

FormatLine ==
    <<Text(<<"Format: ", "Layer">>), Text(<<"Start">>), Text(<<"End">>), Text(<<"Style">>),
      Text(<<"Name">>), Text(<<"MarginL">>), Text(<<"MarginR">>), Text(<<"MarginV">>),
      Text(<<"Effect">>), Text(<<"Text">>)>>

EventsLine == <<Text(<<"[", "E", "v", "e", "n", "t", "s", "]">>)>>

\* "Dialogue: 0,<start>,<end>,Default,,0000,0000,0000,,<payload>"
DialogueLine(start, end, payload) ==
    <<Text(<<"Dialogue: ", "0">>), start, end, Text(<<"Default">>), Text(<<>>),
      Text(<<"0", "0", "0", "0">>), Text(<<"0", "0", "0", "0">>),
      Text(<<"0", "0", "0", "0">>), Text(<<>>)>> \o payload

\* "{\i1}Hello{\i0}, world!": the comma splits the payload in two fields
PayloadHello ==
    <<Text(<<"{", "\\", "i", "1", "}", "H", "e", "l", "l", "o", "{", "\\", "i", "0", "}">>),
      Text(<<" ", "w", "o", "r", "l", "d", "!">>)>>

PayloadSign == <<Text(<<"T", "o", "k", "y", "o", " ", "S", "t", "a", "t", "i", "o", "n">>)>>

PayloadShort == <<Text(<<"O", "h", "!">>)>>

Time(h, m, s, cs) == [h |-> h, m |-> m, s |-> s, cs |-> cs]

ScriptOf(length, lines) == [length |-> length, lines |-> lines]

-----------------------------------------------------------------------------
(* The timing codec on its own: a script with one Dialogue line is         *)
(* adjusted by k and then by -k, and its start time is rendered back        *)

HourInputs == {String(h) : h \in 0..MaxHours}
MinSecInputs == {<<0, 0>>, <<0, 1>>, <<5, 9>>}
CentiInputs == {<<0, 0>>, <<0, 1>>, <<9, 9>>}
StartInputs ==
    {Time(h, m, s, cs) : h \in HourInputs, m \in {<<0, 0>>, <<5, 9>>},
                         s \in MinSecInputs, cs \in CentiInputs}
EndInputs == {Time(<<0>>, <<0, 1>>, <<0, 0>>, <<0, 0>>), Time(<<1>>, <<5, 9>>, <<5, 9>>, <<9, 9>>)}
OffsetInputs == {-120000, -1000, -10, 0, 5, 10, 60000}

CodecScript(start, end) ==
    ScriptOf(500, <<EventsLine, FormatLine, DialogueLine(start, end, PayloadHello),
                    DialogueLine(end, end, PayloadSign)>>)

PureOff == [pc |-> "off"]

CodecInit ==
    /\ INTERCEPT = <<>>
    /\ play = <<>>
    /\ script = <<>>
    /\ pure \in {[pc |-> "input", body |-> CodecScript(st, en), k |-> k,
                  rendered |-> st, adjusted |-> CodecScript(st, en),
                  inverted |-> CodecScript(st, en)] :
                    st \in StartInputs, en \in EndInputs, k \in OffsetInputs}

\* script_render_time(script_parse_time(str)) of the start field
CodecRender ==
    /\ pure.pc = "input"
    /\ pure' = [pure EXCEPT !.pc = "rendered",
                   !.rendered = script_render_time(script_parse_time(pure.body.lines[3][2]))]
    /\ UNCHANGED <<INTERCEPT, play, script>>

\* adjust_times(script, k)
CodecAdjust ==
    /\ pure.pc = "rendered"
    /\ ~AdjustTimesThrows(pure.body)
    /\ pure' = [pure EXCEPT !.pc = "adjusted", !.adjusted = adjust_times(pure.body, pure.k)]
    /\ UNCHANGED <<INTERCEPT, play, script>>

\* adjust_times(adjust_times(script, k), -k)
CodecInvert ==
    /\ pure.pc = "adjusted"
    /\ ~AdjustTimesThrows(pure.adjusted)
    /\ pure' = [pure EXCEPT !.pc = "inverted",
                   !.inverted = adjust_times(pure.adjusted, -pure.k)]
    /\ UNCHANGED <<INTERCEPT, play, script>>

CodecNext == CodecRender \/ CodecAdjust \/ CodecInvert

SpecCodec == CodecInit /\ [][CodecNext]_vars

\* the parsed start and end of the Dialogue line of a codec script
CodecTimes(body) == <<script_parse_time(body.lines[3][2]), script_parse_time(body.lines[3][3])>>

(* C6: adjust_script applies the offset uniformly: for an offset k that is *)
(* a multiple of 10 ms with old + k >= 0, the rewritten start and end      *)
(* fields of the Dialogue line parse to old + k.                            *)
C6_OffsetApplied ==
    (/\ pure.pc \in {"adjusted", "inverted"}
     /\ pure.k % 10 = 0
     /\ CodecTimes(pure.body)[1] + pure.k >= 0
     /\ CodecTimes(pure.body)[2] + pure.k >= 0)
    => /\ CodecTimes(pure.adjusted)[1] = CodecTimes(pure.body)[1] + pure.k
       /\ CodecTimes(pure.adjusted)[2] = CodecTimes(pure.body)[2] + pure.k

(* C7: round trip of the codec: parse_time(render_time(parse_time(s)))     *)
(* equals parse_time(s) for every well-formed time string s.               *)
C7_RoundTrip ==
    pure.pc \in {"rendered", "adjusted", "inverted"}
    => script_parse_time(pure.rendered) = CodecTimes(pure.body)[1]

(* C8: offset inversion: adjusting by +k and then by -k, with all shifted  *)
(* times >= 0, gives back exactly the original Dialogue start and end.     *)
C8_Inversion ==
    (/\ pure.pc = "inverted"
     /\ CodecTimes(pure.body)[1] + pure.k >= 0
     /\ CodecTimes(pure.body)[2] + pure.k >= 0)
    => /\ pure.inverted.lines[3][2] = pure.body.lines[3][2]
       /\ pure.inverted.lines[3][3] = pure.body.lines[3][3]

\* the fields of a line that adjust_line rewrites
TimeFields(line) == IF StartsWithDialogue(line) THEN {2, 3} ELSE {}

\* out has the lines of body, and each line its fields, but for the time fields
SameButTimes(body, out) ==
    /\ out.length = body.length
    /\ Len(out.lines) = Len(body.lines)
    /\ \A n \in DOMAIN body.lines :
           /\ Len(out.lines[n]) = Len(body.lines[n])
           /\ \A f \in DOMAIN body.lines[n] \ TimeFields(body.lines[n]) :
                  out.lines[n][f] = body.lines[n][f]

(* C21: frame of adjust_script: the output has as many lines as the input, *)
(* every line that does not start with "Dialogue: " is identical, and in a *)
(* Dialogue line the first field and every field from the fourth onwards,  *)
(* the comma-split free-text payload included, is identical: only fields   *)
(* 2 and 3 can differ.                                                      *)
C21_Frame ==
    /\ pure.pc \in {"adjusted", "inverted"} => SameButTimes(pure.body, pure.adjusted)
    /\ pure.pc = "inverted" => SameButTimes(pure.adjusted, pure.inverted)

\* a script whose times were moved while its two payload fields were kept
C21_Witness ==
    /\ pure.pc = "adjusted"
    /\ pure.adjusted.lines[3][2] # pure.body.lines[3][2]
    /\ pure.adjusted.lines[3][3] # pure.body.lines[3][3]
    /\ Len(pure.adjusted.lines[3]) = 11
    /\ SubSeq(pure.adjusted.lines[3], 10, 11) = PayloadHello
    /\ pure.adjusted.lines[2] = FormatLine

\* the parsed start and end of Dialogue line n of a script
LineTimes(body, n) == <<script_parse_time(body.lines[n][2]), script_parse_time(body.lines[n][3])>>

\* the adjustment from body to out keeps start <= end in both Dialogue lines
\* and the order of the start times of the two lines
OrderKept(body, out) ==
    /\ \A n \in {3, 4} :
           LineTimes(body, n)[1] <= LineTimes(body, n)[2]
           => LineTimes(out, n)[1] <= LineTimes(out, n)[2]
    /\ \A n, o \in {3, 4} :
           LineTimes(body, n)[1] <= LineTimes(body, o)[1]
           => LineTimes(out, n)[1] <= LineTimes(out, o)[1]

(* C38: adjustment preserves ordering: script_render_time is monotonically *)
(* non-decreasing, so for every Dialogue line with parsed start <= parsed  *)
(* end and every integer offset the adjusted line still has parsed start   *)
(* <= parsed end, and two lines ordered by start time stay so ordered.     *)
C38_OrderPreserved ==
    /\ pure.pc \in {"adjusted", "inverted"} => OrderKept(pure.body, pure.adjusted)
    /\ pure.pc = "inverted" => OrderKept(pure.adjusted, pure.inverted)
    /\ pure.pc \in {"adjusted", "inverted"} =>
           \A n, o \in {3, 4} : \A f, g \in {2, 3} :
               script_parse_time(pure.body.lines[n][f]) + pure.k
                   <= script_parse_time(pure.body.lines[o][g]) + pure.k
               => script_parse_time(pure.adjusted.lines[n][f])
                      <= script_parse_time(pure.adjusted.lines[o][g])

\* a line that starts before it ends, moved by a non-zero offset, still does,
\* and still starts before the line after it
C38_Witness ==
    /\ pure.pc = "adjusted"
    /\ pure.k # 0
    /\ LineTimes(pure.body, 3)[1] < LineTimes(pure.body, 3)[2]
    /\ LineTimes(pure.adjusted, 3)[1] < LineTimes(pure.adjusted, 3)[2]
    /\ LineTimes(pure.adjusted, 3)[1] < LineTimes(pure.adjusted, 4)[1]
    /\ LineTimes(pure.adjusted, 3)[1] # LineTimes(pure.body, 3)[1]

\* the time fields written by the codec in this state
RenderedTimes ==
    {pure.rendered}
    \cup (IF pure.pc \in {"adjusted", "inverted"}
          THEN {pure.adjusted.lines[n][f] : n \in {3, 4}, f \in {2, 3}} ELSE {})
    \cup (IF pure.pc = "inverted"
          THEN {pure.inverted.lines[n][f] : n \in {3, 4}, f \in {2, 3}} ELSE {})

\* "0:00:00.00"
ZeroTime == Time(<<0>>, <<0, 0>>, <<0, 0>>, <<0, 0>>)

(* C39: negative results are clamped, not rejected: when original time +   *)
(* offset is negative, script_render_time produces "0:00:00.00" without    *)
(* raising an error, and for every non-negative input its output has       *)
(* minutes and seconds in 00..59 and centiseconds in 00..99.               *)
C39_Clamped ==
    /\ pure.pc \in {"adjusted", "inverted"} =>
           \A n \in {3, 4} : \A f \in {2, 3} :
               script_parse_time(pure.body.lines[n][f]) + pure.k < 0
               => pure.adjusted.lines[n][f] = ZeroTime
    /\ pure.pc # "input" =>
           \A t \in RenderedTimes :
               /\ Len(t.m) = 2 /\ Number(t.m) \in 0..59
               /\ Len(t.s) = 2 /\ Number(t.s) \in 0..59
               /\ Len(t.cs) = 2 /\ Number(t.cs) \in 0..99
               /\ Len(t.h) >= 1

\* a start time pushed below zero and written as 0:00:00.00, next to an end
\* time above zero written with minutes and centiseconds at their upper ends
C39_Witness ==
    /\ pure.pc = "adjusted"
    /\ LineTimes(pure.body, 3)[1] > 0
    /\ LineTimes(pure.body, 3)[1] + pure.k < 0
    /\ pure.adjusted.lines[3][2] = ZeroTime
    /\ Number(pure.adjusted.lines[3][3].m) = 59
    /\ Number(pure.adjusted.lines[3][3].cs) >= 90

-----------------------------------------------------------------------------
(* The dialogue matcher on its own: script_normalize on every text of a    *)
(* few characters, script_timing_adjust on pairs of scripts of few lines   *)

\* the characters of the texts: escapes, braces, letters, a digit, others
TextChars == {"\\", "{", "}", "a", "Z", "7", " ", "!"}

RECURSIVE TextsOf(_)
TextsOf(n) ==
    IF n = 0 THEN {<<>>}
    ELSE LET shorter == TextsOf(n - 1)
         IN  shorter \cup {Append(t, c) : t \in shorter, c \in TextChars}

\* "Hello world": another text that normalizes like PayloadHello
PayloadPlain == <<Text(<<"H", "e", "l", "l", "o", " ", "w", "o", "r", "l", "d">>)>>

MatcherLine(sec, payload) ==
    DialogueLine(Time(<<0>>, <<0, 0>>, <<0, sec>>, <<0, 0>>),
                 Time(<<0>>, <<0, 1>>, <<0, 0>>, <<0, 0>>), payload)

MatcherLines1 ==
    {MatcherLine(1, PayloadShort), MatcherLine(2, PayloadHello),
     MatcherLine(3, PayloadSign), MatcherLine(4, PayloadPlain)}

MatcherLines2 ==
    {MatcherLine(0, PayloadShort), MatcherLine(5, PayloadHello),
     MatcherLine(7, PayloadPlain), MatcherLine(9, PayloadSign)}

RECURSIVE LinesOf(_, _)
LinesOf(lines, n) ==
    IF n = 0 THEN {<<>>}
    ELSE LET shorter == LinesOf(lines, n - 1)
         IN  shorter \cup {Append(t, l) : t \in shorter, l \in lines}

MatcherScript(lines) == ScriptOf(50000, <<EventsLine, FormatLine>> \o lines)

MatcherInit ==
    /\ INTERCEPT = <<>>
    /\ play = <<>>
    /\ script = <<>>
    /\ pure \in {[pc |-> "text", text |-> t, out |-> <<>>, script1 |-> ScriptOf(0, <<>>),
                  script2 |-> ScriptOf(0, <<>>), adjust |-> <<>>] : t \in TextsOf(MaxText)}
             \cup {[pc |-> "scripts", text |-> <<>>, out |-> <<>>,
                    script1 |-> MatcherScript(l1), script2 |-> MatcherScript(l2),
                    adjust |-> <<>>] :
                       l1 \in LinesOf(MatcherLines1, MaxLines),
                       l2 \in LinesOf(MatcherLines2, MaxLines)}

\* script_normalize(text)
MatcherNormalize ==
    /\ pure.pc = "text"
    /\ pure' = [pure EXCEPT !.pc = "normalized", !.out = script_normalize(pure.text)]
    /\ UNCHANGED <<INTERCEPT, play, script>>

\* script_timing_adjust(script1, script2)
MatcherAdjust ==
    /\ pure.pc = "scripts"
    /\ ~DialogueLinesThrow(pure.script1) /\ ~DialogueLinesThrow(pure.script2)
    /\ pure' = [pure EXCEPT !.pc = "matched",
                   !.adjust = script_timing_adjust(pure.script1, pure.script2)]
    /\ UNCHANGED <<INTERCEPT, play, script>>

MatcherNext == MatcherNormalize \/ MatcherAdjust

SpecMatcher == MatcherInit /\ [][MatcherNext]_vars

\* the pairs (i, j) of dialogue-line indices whose normalized texts are
\* equal, the text of line i of the first script having at least 6 characters
MatchingPairs(dialog1, dialog2) ==
    {ij \in (DOMAIN dialog1) \X (DOMAIN dialog2) :
        /\ Len(dialog1[ij[1]].text) >= 6
        /\ dialog1[ij[1]].text = dialog2[ij[2]].text}

LexLeast(pairs) ==
    CHOOSE ij \in pairs :
        \A kl \in pairs : ij[1] < kl[1] \/ (ij[1] = kl[1] /\ ij[2] <= kl[2])

(* C23: the matcher is first-found: estimate_offset(A, B) is               *)
(* timeA_i - timeB_j for the lexicographically least pair (i, j) of        *)
(* dialogue lines whose normalized texts are equal, that of A's line i     *)
(* having length >= 6, and none when there is no such pair.                *)
C23_FirstFound ==
    pure.pc = "matched" =>
        LET dialog1 == script_dialogue_lines(pure.script1)
            dialog2 == script_dialogue_lines(pure.script2)
            pairs == MatchingPairs(dialog1, dialog2)
        IN  IF pairs = {} THEN pure.adjust = <<>>
            ELSE pure.adjust = <<dialog1[LexLeast(pairs)[1]].time
                                 - dialog2[LexLeast(pairs)[2]].time>>

C23_Witness ==
    /\ pure.pc = "matched"
    /\ Len(script_dialogue_lines(pure.script1)) = 2
    /\ Len(script_dialogue_lines(pure.script1)[1].text) < 6
    /\ Cardinality(MatchingPairs(script_dialogue_lines(pure.script1),
                                 script_dialogue_lines(pure.script2))) = 2
    /\ pure.adjust = <<2000 - 5000>>

\* normalize as the sentence states it: a scan that is in plain text, behind
\* a backslash, or inside braces
RECURSIVE NormalizeReference(_, _)
NormalizeReference(text, mode) ==
    IF text = <<>> THEN <<>>
    ELSE LET ch == Head(text)
             rest == Tail(text)
         IN  CASE mode = "escape" -> NormalizeReference(rest, "plain")
               [] mode = "brace" ->
                      NormalizeReference(rest, IF ch = "}" THEN "plain" ELSE "brace")
               [] OTHER ->
                      IF ch = "\\" THEN NormalizeReference(rest, "escape")
                      ELSE IF ch = "{" THEN NormalizeReference(rest, "brace")
                      ELSE IF ch \in CHARS THEN <<ch>> \o NormalizeReference(rest, "plain")
                      ELSE NormalizeReference(rest, "plain")

(* C24: normalize equals the reference: scanning left to right, a          *)
(* backslash and the character after it are dropped, a '{' and everything  *)
(* up to and including the next '}' are dropped, and of the rest only      *)
(* ASCII letters and digits are kept, in order, case preserved; the output *)
(* holds no character outside [A-Za-z0-9].                                 *)
C24_NormalizeReference ==
    pure.pc = "normalized" =>
        /\ pure.out = NormalizeReference(pure.text, "plain")
        /\ \A i \in DOMAIN pure.out : pure.out[i] \in CHARS

C24_Witness ==
    /\ pure.pc = "normalized"
    /\ pure.text = <<"\\", "a", "{", "Z">>
    /\ pure.out = <<>>

-----------------------------------------------------------------------------
(* The timing reconciler on its own: calculate_adjustment step by step, on *)
(* durations and dub-language scripts around the validation bound           *)

SubEntry(guid, lang, format) == [lang |-> lang, url |-> <<guid, lang>>, format |-> format]

\* the dub-language script of the viewed media, its line at 0:01:01.00 or 0:02:00.00
RecDubScripts ==
    {ScriptOf(50000, <<FormatLine, DialogueLine(Time(<<0>>, m, s, <<0, 0>>), Time(<<0>>, <<0, 3>>, <<0, 0>>, <<0, 0>>), pl)>>) :
        m \in {<<0, 1>>}, s \in {<<0, 1>>}, pl \in {PayloadHello, PayloadSign, PayloadShort}}
    \cup {ScriptOf(50000, <<FormatLine, DialogueLine(Time(<<0>>, <<0, 2>>, <<0, 0>>, <<0, 0>>), Time(<<0>>, <<0, 3>>, <<0, 0>>, <<0, 0>>), PayloadHello)>>),
          ScriptOf(50000, <<FormatLine, DialogueLine(Time(<<0>>, <<0, 1>>, <<0, 0>>, <<0, 0>>), Time(<<0>>, <<0, 3>>, <<0, 0>>, <<0, 0>>), PayloadHello)>>)}

\* the dub-language script of the alternate media, its lines at 0:00:00.00 or 0:01:00.00
RecAltScripts ==
    {ScriptOf(50000, <<FormatLine, DialogueLine(Time(<<0>>, m, <<0, 0>>, <<0, 0>>), Time(<<0>>, <<0, 3>>, <<0, 0>>, <<0, 0>>), pl)>>) :
        m \in {<<0, 0>>, <<0, 1>>}, pl \in {PayloadHello, PayloadShort}}

RecDurations == {1440000, 1440999, 1441000, 1501000, 1501001, 1560001}
RecAltDurations == {1440000}
RecSubs == {<<>>, <<SubEntry("A", "en-US", "ass")>>, <<SubEntry("A", "en-US", "vtt")>>}
RecAltSubs ==
    {<<SubEntry("B", "de-DE", "ass")>>,
     <<SubEntry("B", "en-US", "ass"), SubEntry("B", "de-DE", "ass")>>,
     <<SubEntry("B", "en-US", "vtt")>>}

\* dub_fetch and dub_alt_fetch resolve to null when the map has no dub-language entry
RecInit ==
    /\ INTERCEPT = <<>>
    /\ play = <<>>
    /\ script = <<>>
    /\ pure \in {[pc |-> "Pending", dub_lang |-> "en-US",
                  duration |-> d, alt_duration |-> ad, subs |-> sm, alt_subs |-> am,
                  dub_fetch |-> IF HasOwnProperty(sm, "en-US") THEN <<ds>> ELSE <<>>,
                  dub_alt_fetch |-> IF HasOwnProperty(am, "en-US") THEN <<as>> ELSE <<>>,
                  duration_adjust |-> 0, script_adjust |-> <<>>, out |-> 0] :
                    d \in RecDurations, ad \in RecAltDurations, sm \in RecSubs,
                    am \in RecAltSubs, ds \in RecDubScripts, as \in RecAltScripts}

\* let duration_adjust = await this.calculate_duration_adjustment()
RecDurationResolved ==
    /\ pure.pc = "Pending"
    /\ pure' = [pure EXCEPT !.pc = "DurationResolved",
                   !.duration_adjust = calculate_duration_adjustment(pure.duration, pure.alt_duration)]
    /\ UNCHANGED <<INTERCEPT, play, script>>

\* let script_adjust = await this.calculate_script_adjustment(duration_adjust, sub, alt_sub)
RecTextCompared ==
    /\ pure.pc = "DurationResolved"
    /\ pure' = [pure EXCEPT !.pc = "TextCompared",
                   !.script_adjust =
                       calculate_script_adjustment(pure.duration_adjust,
                           Lookup(pure.subs, pure.dub_lang), Lookup(pure.alt_subs, pure.dub_lang),
                           pure.dub_fetch, pure.dub_alt_fetch)]
    /\ UNCHANGED <<INTERCEPT, play, script>>

\* the offset calculate_adjustment returns to oncomplete
RecApplied ==
    /\ pure.pc = "TextCompared"
    /\ pure' = [pure EXCEPT !.pc = "Applied",
                   !.out = calculate_adjustment(pure.duration, pure.alt_duration, pure.dub_lang,
                               pure.subs, pure.alt_subs, pure.dub_fetch, pure.dub_alt_fetch)]
    /\ UNCHANGED <<INTERCEPT, play, script>>

RecNext == RecDurationResolved \/ RecTextCompared \/ RecApplied

SpecReconcile == RecInit /\ [][RecNext]_vars

\* the text signal of a reconciler input: both snapshots hold an "ass" entry of
\* the dub language and the two scripts have a matching dialogue pair
RecTextOffset ==
    IF /\ HasOwnProperty(pure.subs, pure.dub_lang)
       /\ HasOwnProperty(pure.alt_subs, pure.dub_lang)
       /\ Lookup(pure.subs, pure.dub_lang)[1].format = "ass"
       /\ Lookup(pure.alt_subs, pure.dub_lang)[1].format = "ass"
    THEN script_timing_adjust(pure.dub_fetch[1], pure.dub_alt_fetch[1])
    ELSE <<>>

(* C9: validation bound: with a text offset t and the duration offset d,   *)
(* the chosen offset is t if |t - d| <= 60000 and d if |t - d| > 60000.    *)
C9_ValidationBound ==
    (pure.pc = "Applied" /\ RecTextOffset # <<>>)
    => LET t == RecTextOffset[1]
           d == pure.duration - pure.alt_duration
       IN  /\ Abs(t - d) <= 60000 => pure.out = t
           /\ Abs(t - d) > 60000 => pure.out = d

C9_Witness ==
    /\ pure.pc = "Applied"
    /\ RecTextOffset # <<>>
    /\ Abs(RecTextOffset[1] - (pure.duration - pure.alt_duration)) = 60001
    /\ pure.out = pure.duration - pure.alt_duration
    /\ pure.out # RecTextOffset[1]

C37_ZeroIsSignal ==
    pure.pc = "Applied" =>
        /\ (RecTextOffset = <<0>> /\ Abs(0 - pure.duration_adjust) <= SCRIPT_MAX_ADJUST)
           => pure.script_adjust = <<0>> /\ pure.out = 0
        /\ RecTextOffset = <<>>
           => pure.script_adjust = <<>> /\ pure.out = pure.duration_adjust

\* equal times in the two scripts, durations a second apart: the offset is 0
C37_Witness ==
    /\ pure.pc = "Applied"
    /\ RecTextOffset = <<0>>
    /\ pure.duration_adjust = 1000
    /\ pure.out = 0

-----------------------------------------------------------------------------
(* The media of the model: what the /play endpoint, the caption assets and *)
(* the duration lookup answer for each GUID                                 *)

Version(lang, guid) == [audio_locale |-> lang, guid |-> guid]

\* the JSON body of the /play response of a media
PlayBody(guid) ==
    CASE guid = "A" ->
            [audioLocale |-> "en-US",
             versions |-> <<Version("en-US", "A"), Version("ja-JP", "B")>>,
             subtitles |-> <<SubEntry("A", "en-US", "ass"), SubEntry("A", "de-DE", "ass"),
                             SubEntry("A", "fr-FR", "vtt")>>]
      [] guid \in {"C", "D", "F"} ->
            [audioLocale |-> "en-US",
             versions |-> <<Version("en-US", guid), Version("ja-JP", "B")>>,
             subtitles |-> <<SubEntry(guid, "en-US", "ass")>>]
      [] guid = "E" ->
            [audioLocale |-> "en-US",
             versions |-> <<Version("en-US", "E"), Version("ja-JP", "B")>>,
             subtitles |-> <<>>]
      [] guid = "G" ->
            [audioLocale |-> "en-US",
             versions |-> <<Version("en-US", "G"), Version("ja-JP", "H")>>,
             subtitles |-> <<>>]
      [] guid = "H" ->
            [audioLocale |-> "ja-JP",
             versions |-> <<Version("en-US", "G"), Version("ja-JP", "H")>>,
             subtitles |-> <<SubEntry("H", "pt-BR", "vtt")>>]
      [] guid = "B" ->
            [audioLocale |-> "ja-JP",
             versions |-> <<Version("en-US", "A"), Version("ja-JP", "B")>>,
             subtitles |-> <<SubEntry("B", "en-US", "ass"), SubEntry("B", "de-DE", "ass"),
                             SubEntry("B", "es-ES", "ass")>>]
      [] OTHER ->
            [audioLocale |-> "en-US",
             versions |-> <<Version("en-US", guid)>>,
             subtitles |-> <<>>]

PlayGuids == {"A", "B", "C", "D", "E", "F", "G", "X"}

\* the text of a caption asset
AssetText(url) ==
    CASE url = <<"A", "en-US">> ->
            ScriptOf(50000, <<EventsLine, FormatLine,
                DialogueLine(Time(<<0>>, <<0, 0>>, <<0, 3>>, <<0, 0>>),
                             Time(<<0>>, <<0, 0>>, <<0, 5>>, <<5, 0>>), PayloadHello)>>)
      [] url \in {<<"C", "en-US">>, <<"D", "en-US">>, <<"F", "en-US">>} ->
            ScriptOf(CASE url[1] = "C" -> 500
                       [] url[1] = "D" -> SCRIPT_EMPTY_THRESHOLD
                       [] OTHER -> SCRIPT_EMPTY_THRESHOLD + 1,
                     <<EventsLine, FormatLine,
                DialogueLine(Time(<<0>>, <<0, 0>>, <<0, 3>>, <<0, 0>>),
                             Time(<<0>>, <<0, 0>>, <<0, 5>>, <<5, 0>>), PayloadSign)>>)
      [] url = <<"B", "en-US">> ->
            ScriptOf(50000, <<EventsLine, FormatLine,
                DialogueLine(Time(<<0>>, <<0, 0>>, <<0, 1>>, <<0, 0>>),
                             Time(<<0>>, <<0, 0>>, <<0, 3>>, <<5, 0>>), PayloadHello)>>)
      [] url = <<"B", "de-DE">> ->
            ScriptOf(40000, <<EventsLine,
                DialogueLine(Time(<<0>>, <<0, 0>>, <<0, 1>>, <<0, 0>>),
                             Time(<<0>>, <<0, 0>>, <<0, 3>>, <<5, 0>>), PayloadSign)>>)
      [] url = <<"H", "pt-BR">> ->
            ScriptOf(30000, <<EventsLine, FormatLine,
                DialogueLine(Time(<<0>>, <<0, 0>>, <<0, 1>>, <<0, 0>>),
                             Time(<<0>>, <<0, 0>>, <<0, 3>>, <<5, 0>>), PayloadSign)>>)
      [] OTHER ->
            ScriptOf(300, <<FormatLine, <<Text(<<"Dialogue: ", "0">>)>>>>)

\* episode_metadata.duration_ms of a media
DurationMs(guid) ==
    CASE guid \in {"A", "G"} -> 1441000
      [] guid = "C" -> 1440500
      [] guid = "E" -> 1442000
      [] OTHER -> 1440000

\* buf + str (a chunk ends at a line end)
Concat(buf, str) ==
    [length |-> buf.length + str.length, lines |-> buf.lines \o str.lines]

EmptyString == ScriptOf(0, <<>>)

\* the chunks in which the response body of a caption asset arrives
AssetChunks(url) ==
    LET body == AssetText(url)
    IN  <<ScriptOf(body.length - 100, SubSeq(body.lines, 1, 1)),
          ScriptOf(100, SubSeq(body.lines, 2, Len(body.lines)))>>

ScriptUrls == {<<"B", "en-US">>, <<"B", "de-DE">>, <<"B", "es-ES">>, <<"H", "pt-BR">>}

-----------------------------------------------------------------------------
(* PlayResponse, the registry and the caption-map reconciliation *)

\* a promise: st is "none", "pending", "fulfilled" or "rejected"; v is the
\* nullable value it was fulfilled with
NoPromise == [st |-> "none", v |-> <<>>]
Pending == [st |-> "pending", v |-> <<>>]
Fulfilled(v) == [st |-> "fulfilled", v |-> v]
Rejected == [st |-> "rejected", v |-> <<>>]
Settled(promise) == promise.st \in {"fulfilled", "rejected"}

\* the GUIDs of the versions with the given audio language, in order
VersionsWith(raw, lang) ==
    SelectSeq(raw.versions, LAMBDA v : v.audio_locale = lang)

\* guid() and alt_guid() throw when no version matches
GuidThrows(raw) == VersionsWith(raw, raw.audioLocale) = <<>>
guid(raw) == VersionsWith(raw, raw.audioLocale)[1].guid
AltGuidThrows(raw) == VersionsWith(raw, ALT_LANG) = <<>>
alt_guid(raw) == VersionsWith(raw, ALT_LANG)[1].guid

\* a variant that compares with >= instead of >
should_replace_dub_sub_inclusive(script_text) ==
    IF script_text = <<>> THEN TRUE
    ELSE IF script_text[1].length >= SCRIPT_EMPTY_THRESHOLD THEN FALSE
    ELSE TRUE

\* a variant that keeps the entry when there is no text at all
should_replace_dub_sub_absent(script_text) ==
    IF script_text = <<>> THEN FALSE
    ELSE IF script_text[1].length > SCRIPT_EMPTY_THRESHOLD THEN FALSE
    ELSE TRUE

\* script_text: the nullable text dub_script resolved to
should_replace_dub_sub(script_text) ==
    IF script_text = <<>> THEN TRUE
    ELSE IF script_text[1].length > SCRIPT_EMPTY_THRESHOLD THEN FALSE
    ELSE TRUE

\* a variant that assigns a new map holding only obj: this._raw['subtitles'] = {[lang]: obj}
set_subs_only(subtitles, lang, obj) == <<obj>>

\* this._raw['subtitles'][lang] = obj
set_subs(subtitles, lang, obj) ==
    IF HasOwnProperty(subtitles, lang)
    THEN [i \in DOMAIN subtitles |-> IF subtitles[i].lang = lang THEN obj ELSE subtitles[i]]
    ELSE Append(subtitles, obj)

\* Object.hasOwnProperty(subs, lang): hasOwnProperty called on the Object
\* constructor itself, which asks whether the constructor has an own property
\* named String(subs) = "[object Object]" (lang is ignored); it has none
ObjectHasOwnProperty(obj, key) == FALSE

\* while (_INTERCEPT.length > _MAX_INTERCEPT) _INTERCEPT.shift()
RECURSIVE ShiftOlder(_)
ShiftOlder(reg) == IF Len(reg) > MAX_INTERCEPT THEN ShiftOlder(Tail(reg)) ELSE reg

\* a variant of register without the clean-up of older entries
register_unbounded(reg, ctx) == Append(reg, ctx)

\* a variant of register that makes room by dropping the newest older entry
register_pops(reg, ctx) ==
    IF Len(reg) >= MAX_INTERCEPT
    THEN Append(SubSeq(reg, 1, MAX_INTERCEPT - 1), ctx)
    ELSE Append(reg, ctx)

register(reg, ctx) == ShiftOlder(Append(reg, ctx))

\* a variant of unregister whose filter keeps the wrong contexts
unregister_inverted(reg, url) == SelectSeq(reg, LAMBDA ctx : ctx.url = url)

unregister(reg, url) == SelectSeq(reg, LAMBDA ctx : ctx.url # url)

\* a variant of the lookup that returns the entry registered last
context_for_latest(reg, url) ==
    LET found == SelectSeq(reg, LAMBDA ctx : ctx.url = url)
    IN  IF found = <<>> THEN <<>> ELSE <<found[Len(found)]>>

\* the nullable context _INTERCEPT.find((ctx) => ctx.url == url)
context_for(reg, url) ==
    LET found == SelectSeq(reg, LAMBDA ctx : ctx.url = url)
    IN  IF found = <<>> THEN <<>> ELSE <<found[1]>>

\* a variant of the context that keeps of subs the entry of its own language only
ScriptRewriteContext_own_lang(url, p, lang, subs, alt_subs) ==
    [url |-> url, media |-> p, lang |-> lang,
     subs |-> SelectSeq(subs, LAMBDA sub : sub.lang = lang), alt_subs |-> alt_subs]

\* new ScriptRewriteContext(alt_sub.url, media, lang, duration, alt_duration,
\* dub_fetch, dub_alt_fetch, subs, alt_subs): media p stands for the
\* PlayResponse and the four promises of interception p
ScriptRewriteContext(url, p, lang, subs, alt_subs) ==
    [url |-> url, media |-> p, lang |-> lang, subs |-> subs, alt_subs |-> alt_subs]

\* does the forEach body copy the alternate's entry of lang?
copy_sub(lang, dub_lang, subs, should_replace_sub) ==
    \/ lang = dub_lang /\ ObjectHasOwnProperty(subs, lang) /\ should_replace_sub
    \/ ~ObjectHasOwnProperty(subs, lang)

\* a variant of the forEach that sets up the rewrite for the dub language only
RECURSIVE ForEachAltSub_dub_only(_, _, _, _, _, _, _)
ForEachAltSub_dub_only(i, p, dub_lang, subs, alt_subs, should_replace_sub, acc) ==
    IF i > Len(alt_subs) THEN acc
    ELSE LET alt_sub == alt_subs[i]
         IN  IF copy_sub(alt_sub.lang, dub_lang, subs, should_replace_sub)
             THEN ForEachAltSub_dub_only(i + 1, p, dub_lang, subs, alt_subs, should_replace_sub,
                      [subtitles |-> set_subs(acc.subtitles, alt_sub.lang, alt_sub),
                       registry |-> IF alt_sub.lang = dub_lang
                                    THEN register(acc.registry,
                                             ScriptRewriteContext(alt_sub.url, p, alt_sub.lang,
                                                                  subs, alt_subs))
                                    ELSE acc.registry])
             ELSE ForEachAltSub_dub_only(i + 1, p, dub_lang, subs, alt_subs, should_replace_sub,
                                         acc)

\* a variant of oncomplete without the copy of the original subs: the context
\* is built from the descriptor's map as it is after set_subs
RECURSIVE ForEachAltSub_live(_, _, _, _, _, _, _)
ForEachAltSub_live(i, p, dub_lang, subs, alt_subs, should_replace_sub, acc) ==
    IF i > Len(alt_subs) THEN acc
    ELSE LET alt_sub == alt_subs[i]
         IN  IF copy_sub(alt_sub.lang, dub_lang, subs, should_replace_sub)
             THEN ForEachAltSub_live(i + 1, p, dub_lang, subs, alt_subs, should_replace_sub,
                      [subtitles |-> set_subs(acc.subtitles, alt_sub.lang, alt_sub),
                       registry |-> register(acc.registry,
                           ScriptRewriteContext(alt_sub.url, p, alt_sub.lang,
                               set_subs(acc.subtitles, alt_sub.lang, alt_sub), alt_subs))])
             ELSE ForEachAltSub_live(i + 1, p, dub_lang, subs, alt_subs, should_replace_sub, acc)

\* the forEach over Object.keys(alt_subs) from key i on: the descriptor's
\* caption map and the registry after it
RECURSIVE ForEachAltSub(_, _, _, _, _, _, _)
ForEachAltSub(i, p, dub_lang, subs, alt_subs, should_replace_sub, acc) ==
    IF i > Len(alt_subs) THEN acc
    ELSE LET alt_sub == alt_subs[i]
         IN  IF copy_sub(alt_sub.lang, dub_lang, subs, should_replace_sub)
             THEN ForEachAltSub(i + 1, p, dub_lang, subs, alt_subs, should_replace_sub,
                      [subtitles |-> set_subs(acc.subtitles, alt_sub.lang, alt_sub),
                       registry |-> register(acc.registry,
                           ScriptRewriteContext(alt_sub.url, p, alt_sub.lang, subs, alt_subs))])
             ELSE ForEachAltSub(i + 1, p, dub_lang, subs, alt_subs, should_replace_sub, acc)

\* request.requestHeaders of the /play request for a media: the token differs
\* from request to request
RequestHeaders(g) ==
    <<[name |-> "Authorization", value |-> g], [name |-> "Accept", value |-> "application/json"],
      [name |-> "Cookie", value |-> "session"]>>

\* a header name in lower case
Lower(name) ==
    CASE name = "Authorization" -> "authorization"
      [] name = "Accept" -> "accept"
      [] name = "Cookie" -> "cookie"
      [] OTHER -> name

\* new Headers(requestHeaders.map((x) => [x['name'], x['value']])): a Headers
\* object holds its names in lower case
Headers(requestHeaders) ==
    {<<Lower(requestHeaders[i].name), requestHeaders[i].value>> : i \in DOMAIN requestHeaders}

\* the URL of the /play endpoint and of the cms object of a media
PlayUrl(g) == <<"play", g>>
ObjectUrl(g) == <<"objects", g>>

\* fetch(url, { "headers": this.headers }): the request is issued at the call
fetch(rec, url) ==
    [rec EXCEPT !.fetched = Append(rec.fetched, [url |-> url, headers |-> rec.headers])]

\* a variant of media_duration that calls fetch(url) without options
media_duration_bare(rec, g) ==
    [rec EXCEPT !.fetched = Append(rec.fetched, [url |-> ObjectUrl(g), headers |-> {}])]

\* media_duration(guid) up to its first await
media_duration(rec, g) == fetch(rec, ObjectUrl(g))

-----------------------------------------------------------------------------
(* The interceptors.  A request that was never seen is "idle"; a filter    *)
(* has the body written to it (written) and is disconnected or not         *)

Plays == 1..MaxRequests
Scripts == 1..MaxRequests

IdlePlay ==
    [pc |-> "idle", guid |-> "", chunks |-> <<>>, buf |-> <<>>, stopped |-> FALSE,
     written |-> <<>>, disconnected |-> FALSE, raw |-> <<>>, subs |-> <<>>, alt_subs |-> <<>>,
     dub_fetch |-> NoPromise, dub_alt_fetch |-> NoPromise,
     duration |-> NoPromise, alt_duration |-> NoPromise, should_replace_sub |-> <<>>,
     headers |-> {}, fetched |-> <<>>]

IdleScript ==
    [pc |-> "idle", url |-> <<>>, ctx |-> <<>>, chunks |-> <<>>, buf |-> EmptyString,
     stopped |-> FALSE, written |-> <<>>, disconnected |-> FALSE, adjust |-> <<>>]

Init ==
    /\ INTERCEPT = <<>>
    /\ play = [p \in Plays |-> IdlePlay]
    /\ script = [s \in Scripts |-> IdleScript]
    /\ pure = PureOff

\* the requests seen so far, of both kinds
Seen ==
    Cardinality({p \in Plays : play[p].pc # "idle"})
    + Cardinality({s \in Scripts : script[s].pc # "idle"})

\* Interceptor.onerror of a PlayInterceptor: this._filter.disconnect()
Interceptor_onerror(p) ==
    play' = [play EXCEPT ![p].pc = "error", ![p].disconnected = TRUE]

\* playListener: new PlayInterceptor(request); the response has its body in
\* one chunk, or none at all (a raced request)
PlayRequestOf(p, guids) ==
    /\ play[p].pc = "idle"
    /\ IF p = 1 THEN TRUE ELSE play[p - 1].pc # "idle"
    /\ \E g \in guids :
          \E chunks \in {<<>>, <<PlayBody(g)>>} :
              play' = [play EXCEPT ![p].pc = "buffering", ![p].guid = g, ![p].chunks = chunks,
                                      ![p].headers = Headers(RequestHeaders(g))]
    /\ UNCHANGED <<INTERCEPT, script, pure>>

\* a /play request for any media of the catalogue
PlayRequest(p) == Seen < MaxRequests /\ PlayRequestOf(p, PlayGuids)

\* Interceptor.ondata
PlayData(p) ==
    /\ play[p].pc = "buffering"
    /\ play[p].chunks # <<>>
    /\ play' = [play EXCEPT ![p].buf = Append(play[p].buf, Head(play[p].chunks)),
                            ![p].chunks = Tail(play[p].chunks)]
    /\ UNCHANGED <<INTERCEPT, script, pure>>

\* this._filter.onerror: the filter fails before the end of the stream
PlayFilterError(p) ==
    /\ play[p].pc = "buffering"
    /\ Interceptor_onerror(p)
    /\ UNCHANGED <<INTERCEPT, script, pure>>

\* a variant of oncomplete without the early return for guid == alt_guid
PlayStop_no_return(p) ==
    /\ play[p].pc = "buffering"
    /\ play[p].chunks = <<>>
    /\ IF play[p].buf = <<>>
       THEN play' = [play EXCEPT ![p].pc = "empty", ![p].stopped = TRUE,
                                 ![p].disconnected = TRUE]
       ELSE LET raw == play[p].buf[1]
            IN  IF GuidThrows(raw) \/ AltGuidThrows(raw)
                THEN play' = [play EXCEPT ![p].pc = "error", ![p].stopped = TRUE,
                                          ![p].raw = <<raw>>, ![p].disconnected = TRUE]
                ELSE play' = [play EXCEPT ![p] =
                                 fetch([play[p] EXCEPT !.pc = "await_alt", !.stopped = TRUE,
                                                       !.raw = <<raw>>],
                                       PlayUrl(alt_guid(raw)))]
    /\ UNCHANGED <<INTERCEPT, script, pure>>

\* Interceptor.onstop and PlayInterceptor.oncomplete up to its first await
PlayStop(p) ==
    /\ play[p].pc = "buffering"
    /\ play[p].chunks = <<>>
    /\ IF play[p].buf = <<>>
       THEN play' = [play EXCEPT ![p].pc = "empty", ![p].stopped = TRUE,
                                 ![p].disconnected = TRUE]
       ELSE LET raw == play[p].buf[1]
            IN  IF GuidThrows(raw) \/ AltGuidThrows(raw)
                THEN play' = [play EXCEPT ![p].pc = "error", ![p].stopped = TRUE,
                                          ![p].raw = <<raw>>, ![p].disconnected = TRUE]
                ELSE IF guid(raw) = alt_guid(raw)
                THEN play' = [play EXCEPT ![p].pc = "written", ![p].stopped = TRUE,
                                          ![p].raw = <<raw>>,
                                          ![p].written = <<play[p].buf[1]>>,
                                          ![p].disconnected = TRUE]
                ELSE play' = [play EXCEPT ![p] =
                                 fetch([play[p] EXCEPT !.pc = "await_alt", !.stopped = TRUE,
                                                       !.raw = <<raw>>],
                                       PlayUrl(alt_guid(raw)))]
    /\ UNCHANGED <<INTERCEPT, script, pure>>

\* the two media_duration calls and the call of should_replace_dub_sub, which
\* suspends on dub_fetch
StartDurations(rec) ==
    [media_duration(media_duration(rec, guid(rec.raw[1])), alt_guid(rec.raw[1]))
         EXCEPT !.pc = "await_dub", !.duration = Pending, !.alt_duration = Pending]

\* a variant of oncomplete without `await dub_alt_fetch`
PlayAltFetched_no_await(p) ==
    /\ play[p].pc = "await_alt"
    /\ \/ Interceptor_onerror(p)
       \/ LET raw == play[p].raw[1]
              dub_lang == raw.audioLocale
              subs == raw.subtitles
              alt_subs == PlayBody(alt_guid(raw)).subtitles
              own == [play[p] EXCEPT
                         !.subs = subs, !.alt_subs = alt_subs,
                         !.dub_fetch = IF HasOwnProperty(subs, dub_lang)
                                       THEN Pending ELSE Fulfilled(<<>>),
                         !.dub_alt_fetch = IF HasOwnProperty(alt_subs, dub_lang)
                                           THEN Pending ELSE Fulfilled(<<>>)]
              dub == IF HasOwnProperty(subs, dub_lang)
                     THEN fetch(own, Lookup(subs, dub_lang)[1].url) ELSE own
              rec == IF HasOwnProperty(alt_subs, dub_lang)
                     THEN fetch(dub, Lookup(alt_subs, dub_lang)[1].url) ELSE dub
          IN  play' = [play EXCEPT ![p] = StartDurations(rec)]
    /\ UNCHANGED <<INTERCEPT, script, pure>>

\* fetch(altUrl) settles: oncomplete runs on to its next await
PlayAltFetched(p) ==
    /\ play[p].pc = "await_alt"
    /\ \/ Interceptor_onerror(p)
       \/ LET raw == play[p].raw[1]
              dub_lang == raw.audioLocale
              subs == raw.subtitles
              alt_subs == PlayBody(alt_guid(raw)).subtitles
              own == [play[p] EXCEPT
                         !.subs = subs, !.alt_subs = alt_subs,
                         !.dub_fetch = IF HasOwnProperty(subs, dub_lang)
                                       THEN Pending ELSE Fulfilled(<<>>),
                         !.dub_alt_fetch = IF HasOwnProperty(alt_subs, dub_lang)
                                           THEN Pending ELSE Fulfilled(<<>>)]
              dub == IF HasOwnProperty(subs, dub_lang)
                     THEN fetch(own, Lookup(subs, dub_lang)[1].url) ELSE own
              rec == IF HasOwnProperty(alt_subs, dub_lang)
                     THEN fetch(dub, Lookup(alt_subs, dub_lang)[1].url) ELSE dub
          IN  play' = [play EXCEPT ![p] =
                          IF HasOwnProperty(alt_subs, dub_lang)
                          THEN [rec EXCEPT !.pc = "await_dub_alt"]
                          ELSE StartDurations(rec)]
    /\ UNCHANGED <<INTERCEPT, script, pure>>

\* dub_alt_fetch settles while oncomplete awaits it
PlayDubAltFetched(p) ==
    /\ play[p].pc = "await_dub_alt"
    /\ \/ play' = [play EXCEPT ![p].pc = "error", ![p].disconnected = TRUE,
                               ![p].dub_alt_fetch = Rejected]
       \/ LET url == Lookup(play[p].alt_subs, play[p].raw[1].audioLocale)[1].url
          IN  play' = [play EXCEPT ![p] =
                          StartDurations([play[p] EXCEPT
                              !.dub_alt_fetch = Fulfilled(<<AssetText(url)>>)])]
    /\ UNCHANGED <<INTERCEPT, script, pure>>

\* how a promise is found settled by the first continuation that awaits it:
\* a pending fetch has failed or has produced value; a settled one stays as it is
Outcomes(promise, value) ==
    IF promise.st = "pending" THEN {Rejected, Fulfilled(<<value>>)} ELSE {promise}

\* should_replace_dub_sub resumes, then the forEach, as_json and the write
\* of Interceptor.onstop
PlayReconcile(p) ==
    /\ play[p].pc = "await_dub"
    /\ LET raw == play[p].raw[1]
           own == Lookup(play[p].subs, raw.audioLocale)
       IN  \E dub_fetch \in Outcomes(play[p].dub_fetch,
                                     AssetText(IF own = <<>> THEN <<>> ELSE own[1].url)) :
              IF dub_fetch.st = "rejected"
              THEN /\ play' = [play EXCEPT ![p].pc = "error", ![p].disconnected = TRUE,
                                           ![p].dub_fetch = dub_fetch]
                   /\ UNCHANGED INTERCEPT
              ELSE LET should_replace_sub == should_replace_dub_sub(dub_fetch.v)
                       after == ForEachAltSub(1, p, raw.audioLocale, play[p].subs,
                                    play[p].alt_subs, should_replace_sub,
                                    [subtitles |-> raw.subtitles, registry |-> INTERCEPT])
                       rewrote == [raw EXCEPT !.subtitles = after.subtitles]
                   IN  /\ INTERCEPT' = after.registry
                       /\ play' = [play EXCEPT ![p].pc = "written", ![p].raw = <<rewrote>>,
                                               ![p].dub_fetch = dub_fetch,
                                               ![p].should_replace_sub = <<should_replace_sub>>,
                                               ![p].written = <<rewrote>>,
                                               ![p].disconnected = TRUE]
    /\ UNCHANGED <<script, pure>>

-----------------------------------------------------------------------------
(* ScriptInterceptor *)

\* a variant of onerror that leaves the registry as it is
ScriptInterceptor_onerror_keeps(s) ==
    /\ INTERCEPT' = INTERCEPT
    /\ script' = [script EXCEPT ![s].pc = "error", ![s].disconnected = TRUE]

\* a variant of the write that unregisters the URL it has rewritten
ScriptInterceptor_written_consumes(s, adjust, body) ==
    /\ INTERCEPT' = unregister(INTERCEPT, script[s].url)
    /\ script' = [script EXCEPT ![s].pc = "written", ![s].adjust = <<adjust>>,
                                ![s].written = <<body>>, ![s].disconnected = TRUE]

\* a variant of onerror that logs the error and leaves the filter connected
ScriptInterceptor_onerror_holds(s) ==
    /\ INTERCEPT' = unregister(INTERCEPT, script[s].url)
    /\ script' = [script EXCEPT ![s].pc = "error"]

\* ScriptInterceptor.onerror: unregister(this.url()), then super.onerror
ScriptInterceptor_onerror(s) ==
    /\ INTERCEPT' = unregister(INTERCEPT, script[s].url)
    /\ script' = [script EXCEPT ![s].pc = "error", ![s].disconnected = TRUE]

\* the callback of oncomplete(...).then in Interceptor.onstop:
\* this._filter.write(body); this._filter.disconnect()
ScriptInterceptor_written(s, adjust, body) ==
    /\ INTERCEPT' = INTERCEPT
    /\ script' = [script EXCEPT ![s].pc = "written", ![s].adjust = <<adjust>>,
                                ![s].written = <<body>>, ![s].disconnected = TRUE]

\* a variant of the listener that does not return when no context is found
ScriptRequest_always(s) ==
    /\ script[s].pc = "idle"
    /\ Seen < MaxRequests
    /\ IF s = 1 THEN TRUE ELSE script[s - 1].pc # "idle"
    /\ \E url \in ScriptUrls :
          \E chunks \in {<<>>, AssetChunks(url)} :
              script' = [script EXCEPT ![s].pc = "buffering", ![s].url = url,
                                       ![s].ctx = context_for(INTERCEPT, url),
                                       ![s].chunks = chunks]
    /\ UNCHANGED <<INTERCEPT, play, pure>>

\* ScriptInterceptor.listener: a request without a registered context is not
\* filtered; the response of a filtered one arrives in two chunks or is empty
ScriptRequestOf(s, urls) ==
    /\ script[s].pc = "idle"
    /\ IF s = 1 THEN TRUE ELSE script[s - 1].pc # "idle"
    /\ \E url \in urls :
          LET ctx == context_for(INTERCEPT, url)
          IN  IF ctx = <<>>
              THEN script' = [script EXCEPT ![s].pc = "passthrough", ![s].url = url]
              ELSE \E chunks \in {<<>>, AssetChunks(url)} :
                      script' = [script EXCEPT ![s].pc = "buffering", ![s].url = url,
                                               ![s].ctx = ctx, ![s].chunks = chunks]
    /\ UNCHANGED <<INTERCEPT, play, pure>>

\* a request for any caption asset of the catalogue
ScriptRequest(s) == Seen < MaxRequests /\ ScriptRequestOf(s, ScriptUrls)

\* a variant of ondata that writes each chunk to the filter as it arrives
ScriptData_streams(s) ==
    /\ script[s].pc = "buffering"
    /\ script[s].chunks # <<>>
    /\ script' = [script EXCEPT ![s].buf = Concat(script[s].buf, Head(script[s].chunks)),
                                ![s].written = <<Concat(script[s].buf, Head(script[s].chunks))>>,
                                ![s].chunks = Tail(script[s].chunks)]
    /\ UNCHANGED <<INTERCEPT, play, pure>>

\* a variant of ondata that puts the chunk in front: this._buf = str + this._buf
ScriptData_prepends(s) ==
    /\ script[s].pc = "buffering"
    /\ script[s].chunks # <<>>
    /\ script' = [script EXCEPT ![s].buf = Concat(Head(script[s].chunks), script[s].buf),
                                ![s].chunks = Tail(script[s].chunks)]
    /\ UNCHANGED <<INTERCEPT, play, pure>>

\* Interceptor.ondata
ScriptData(s) ==
    /\ script[s].pc = "buffering"
    /\ script[s].chunks # <<>>
    /\ script' = [script EXCEPT ![s].buf = Concat(script[s].buf, Head(script[s].chunks)),
                                ![s].chunks = Tail(script[s].chunks)]
    /\ UNCHANGED <<INTERCEPT, play, pure>>

\* this._filter.onerror: the filter fails before the end of the stream
ScriptFilterError(s) ==
    /\ script[s].pc = "buffering"
    /\ ScriptInterceptor_onerror(s)
    /\ UNCHANGED <<play, pure>>

\* Interceptor.onstop; oncomplete suspends on ctx.duration
ScriptStop(s) ==
    /\ script[s].pc = "buffering"
    /\ script[s].chunks = <<>>
    /\ IF script[s].buf = EmptyString
       THEN script' = [script EXCEPT ![s].pc = "empty", ![s].stopped = TRUE,
                                     ![s].disconnected = TRUE]
       ELSE script' = [script EXCEPT ![s].pc = "await_duration", ![s].stopped = TRUE]
    /\ UNCHANGED <<INTERCEPT, play, pure>>

\* a variant of oncomplete that adjusts and writes once ctx.duration has resolved
ScriptDuration_writes(s) ==
    /\ script[s].pc = "await_duration"
    /\ LET m == script[s].ctx[1].media
       IN  \E duration \in Outcomes(play[m].duration, DurationMs(guid(play[m].raw[1]))) :
              /\ play' = [play EXCEPT ![m].duration = duration]
              /\ IF duration.st = "rejected" \/ AdjustTimesThrows(script[s].buf)
                 THEN ScriptInterceptor_onerror(s)
                 ELSE ScriptInterceptor_written(s, 0, adjust_times(script[s].buf, 0))
    /\ UNCHANGED pure

\* await this.ctx.duration
ScriptDuration(s) ==
    /\ script[s].pc = "await_duration"
    /\ LET m == script[s].ctx[1].media
       IN  \E duration \in Outcomes(play[m].duration, DurationMs(guid(play[m].raw[1]))) :
              /\ play' = [play EXCEPT ![m].duration = duration]
              /\ IF duration.st = "rejected"
                 THEN ScriptInterceptor_onerror(s)
                 ELSE /\ script' = [script EXCEPT ![s].pc = "await_alt_duration"]
                      /\ UNCHANGED INTERCEPT
    /\ UNCHANGED pure

\* a variant of oncomplete that looks its context up again before it adjusts
\* and fails when the registry no longer holds one
ScriptAltDuration_looks_up(s) ==
    /\ script[s].pc = "await_alt_duration"
    /\ LET ctx == script[s].ctx[1]
           m == ctx.media
       IN  \E alt_duration \in Outcomes(play[m].alt_duration,
                                        DurationMs(alt_guid(play[m].raw[1]))) :
              /\ play' = [play EXCEPT ![m].alt_duration = alt_duration]
              /\ IF \/ alt_duration.st = "rejected"
                    \/ AdjustTimesThrows(script[s].buf)
                    \/ context_for(INTERCEPT, script[s].url) = <<>>
                 THEN ScriptInterceptor_onerror(s)
                 ELSE LET adjust == calculate_adjustment(play[m].duration.v[1],
                                        alt_duration.v[1], play[m].raw[1].audioLocale,
                                        ctx.subs, ctx.alt_subs, play[m].dub_fetch.v,
                                        play[m].dub_alt_fetch.v)
                      IN  ScriptInterceptor_written(s, adjust,
                                                    adjust_times(script[s].buf, adjust))
    /\ UNCHANGED pure

\* await this.ctx.alt_duration, the rest of calculate_adjustment (its two
\* script promises are settled), adjust_times and the write
ScriptAltDuration(s) ==
    /\ script[s].pc = "await_alt_duration"
    /\ LET ctx == script[s].ctx[1]
           m == ctx.media
       IN  \E alt_duration \in Outcomes(play[m].alt_duration,
                                        DurationMs(alt_guid(play[m].raw[1]))) :
              /\ play' = [play EXCEPT ![m].alt_duration = alt_duration]
              /\ IF alt_duration.st = "rejected" \/ AdjustTimesThrows(script[s].buf)
                 THEN ScriptInterceptor_onerror(s)
                 ELSE LET adjust == calculate_adjustment(play[m].duration.v[1],
                                        alt_duration.v[1], play[m].raw[1].audioLocale,
                                        ctx.subs, ctx.alt_subs, play[m].dub_fetch.v,
                                        play[m].dub_alt_fetch.v)
                      IN  ScriptInterceptor_written(s, adjust,
                                                    adjust_times(script[s].buf, adjust))
    /\ UNCHANGED pure

Next ==
    \/ \E p \in Plays :
          \/ PlayRequest(p)
          \/ PlayData(p)
          \/ PlayFilterError(p)
          \/ PlayStop(p)
          \/ PlayAltFetched(p)
          \/ PlayDubAltFetched(p)
          \/ PlayReconcile(p)
    \/ \E s \in Scripts :
          \/ ScriptRequest(s)
          \/ ScriptData(s)
          \/ ScriptFilterError(s)
          \/ ScriptStop(s)
          \/ ScriptDuration(s)
          \/ ScriptAltDuration(s)

Spec == Init /\ [][Next]_vars

-----------------------------------------------------------------------------
(* Properties of the interceptors *)

\* the interceptions that ran the caption-map reconciliation to its end
Reconciled(p) == play[p].pc = "written" /\ play[p].dub_alt_fetch.st # "none"

\* the metadata as received and as forwarded by interception p
Received(p) == play[p].buf[1]
Forwarded(p) == play[p].written[1]

\* the languages of a caption map
Languages(map) == {map[i].lang : i \in DOMAIN map}

\* the registry holds no entry keyed by url
NoEntry(reg, url) == \A i \in DOMAIN reg : reg[i].url # url

(* C1: caption-map reconciliation: for every language L of the alternate   *)
(* media's caption map, the descriptor's entry for L is replaced by the    *)
(* alternate's entry if and only if L is the dub language and the          *)
(* replace-dub decision is true, or L is absent from the descriptor's      *)
(* original map; every other language of the descriptor keeps its entry.   *)
C1_Reconciliation ==
    \A p \in Plays :
        Reconciled(p) =>
            LET dub_lang == Received(p).audioLocale
                replace_dub == should_replace_dub_sub(play[p].dub_fetch.v)
                rule(L) == \/ L = dub_lang /\ replace_dub
                           \/ ~HasOwnProperty(Received(p).subtitles, L)
            IN  /\ \A L \in Languages(play[p].alt_subs) :
                       (Lookup(Forwarded(p).subtitles, L) = Lookup(play[p].alt_subs, L))
                           <=> rule(L)
                /\ \A L \in Languages(Received(p).subtitles) :
                       ~(L \in Languages(play[p].alt_subs) /\ rule(L))
                           => Lookup(Forwarded(p).subtitles, L)
                                  = Lookup(Received(p).subtitles, L)

(* C2: when the viewed media has a caption in its own audio language whose *)
(* text is longer than the empty-script threshold and the alternate media  *)
(* offers that language too, the interception does not replace that        *)
(* language and registers no PendingRewrite for the alternate's URL of it. *)
C2_GoodDubKept ==
    \A p \in Plays :
        LET dub_lang == Received(p).audioLocale
        IN  (/\ Reconciled(p)
             /\ HasOwnProperty(Received(p).subtitles, dub_lang)
             /\ HasOwnProperty(play[p].alt_subs, dub_lang)
             /\ play[p].dub_fetch.v # <<>>
             /\ play[p].dub_fetch.v[1].length > 7500)
            => /\ Lookup(Forwarded(p).subtitles, dub_lang)
                      = Lookup(Received(p).subtitles, dub_lang)
               /\ \A i \in DOMAIN INTERCEPT :
                      ~(/\ INTERCEPT[i].media = p
                        /\ INTERCEPT[i].url = Lookup(play[p].alt_subs, dub_lang)[1].url)

(* C3: on an error in the handling of an intercepted response the client   *)
(* is delivered the buffered body unmodified: a filter is never            *)
(* disconnected after end-of-stream with its buffered body left unwritten. *)
C3_ErrorPassesThrough ==
    /\ \A p \in Plays :
           (play[p].pc = "error" /\ play[p].stopped) => play[p].written = play[p].buf
    /\ \A s \in Scripts :
           (script[s].pc = "error" /\ script[s].stopped)
               => script[s].written = <<script[s].buf>>

\* interceptor s has its rewritten body written in this step
Rewritten(s) == script[s].pc # "written" /\ script'[s].pc = "written"

\* request s is observed by the listener in this step
Observed(s) == script[s].pc = "idle" /\ script'[s].pc # "idle"

Failed(s) == script[s].pc # "error" /\ script'[s].pc = "error"

DubText(p) == play[p].dub_fetch.v

\* the replace-dub decision interception p took
Decision(p) == play[p].should_replace_sub[1]

PlayWritten(p) == play[p].pc # "written" /\ play'[p].pc = "written"

\* the registry holds a context set up by interception p for lang, keyed by url
Registered(reg, p, lang, url) ==
    \E i \in DOMAIN reg : reg[i].media = p /\ reg[i].lang = lang /\ reg[i].url = url

\* the registry holds a context set up by interception p for lang
RegisteredLang(reg, p, lang) ==
    \E i \in DOMAIN reg : reg[i].media = p /\ reg[i].lang = lang

(* C13: registration precedes forwarding: when an interception whose self  *)
(* GUID differs from its alt GUID writes the rewritten body, the registry  *)
(* holds a PendingRewrite keyed by the substituted asset's URL for every   *)
(* language whose entry was added or replaced, and none was registered for *)
(* a language whose entry was not changed.                                 *)
C13_RegisteredBeforeForwarded ==
    [][\A p \in Plays :
           (PlayWritten(p) /\ guid(play[p].buf[1]) # alt_guid(play[p].buf[1])) =>
               LET got == play[p].buf[1].subtitles
                   sent == play'[p].written[1].subtitles
               IN  \A L \in Languages(got) \cup Languages(sent) :
                       IF Lookup(sent, L) # Lookup(got, L)
                       THEN Registered(INTERCEPT', p, L, Lookup(sent, L)[1].url)
                       ELSE ~RegisteredLang(INTERCEPT', p, L)]_vars

C13_Witness ==
    \E p \in Plays :
        /\ Reconciled(p)
        /\ Lookup(Forwarded(p).subtitles, "fr-FR") = Lookup(Received(p).subtitles, "fr-FR")
        /\ Lookup(Forwarded(p).subtitles, "fr-FR") # <<>>
        /\ Lookup(Forwarded(p).subtitles, "es-ES") # Lookup(Received(p).subtitles, "es-ES")
        /\ Registered(INTERCEPT, p, "es-ES", <<"B", "es-ES">>)
        /\ Registered(INTERCEPT, p, "en-US", <<"B", "en-US">>)

(* C14: when the resolved self GUID equals the resolved alt GUID, the body *)
(* written to the filter is exactly the received body and the registry is  *)
(* left unchanged: the interception registers no PendingRewrite.           *)
C14_AlreadyAlternate ==
    [][\A p \in Plays :
           (/\ ~play[p].stopped /\ play'[p].stopped
            /\ play[p].buf # <<>>
            /\ ~GuidThrows(play[p].buf[1]) /\ ~AltGuidThrows(play[p].buf[1])
            /\ guid(play[p].buf[1]) = alt_guid(play[p].buf[1]))
               => /\ play'[p].pc = "written"
                  /\ play'[p].written = play[p].buf
                  /\ INTERCEPT' = INTERCEPT]_vars

C14_Witness ==
    \E p \in Plays :
        /\ play[p].pc = "written"
        /\ guid(Received(p)) = alt_guid(Received(p))
        /\ Forwarded(p) = Received(p)
        /\ \A i \in DOMAIN INTERCEPT : INTERCEPT[i].media # p
        /\ INTERCEPT # <<>>

(* C17: a caption-asset request whose URL has no PendingRewrite when it is *)
(* observed is not filtered: it passes through and the registry is not     *)
(* modified, and it stays unfiltered also when a PendingRewrite for its    *)
(* URL is registered later.                                                *)
C17_UnregisteredPassesThrough ==
    [][\A s \in Scripts :
           /\ (Observed(s) /\ context_for(INTERCEPT, script'[s].url) = <<>>)
                  => /\ script'[s] = [IdleScript EXCEPT !.pc = "passthrough",
                                                         !.url = script'[s].url]
                     /\ INTERCEPT' = INTERCEPT
           /\ script[s].pc = "passthrough" => script'[s] = script[s]]_vars

C17_Witness ==
    \E s \in Scripts :
        /\ script[s].pc = "passthrough"
        /\ script[s].written = <<>>
        /\ ~script[s].disconnected
        /\ ~NoEntry(INTERCEPT, script[s].url)

\* the filter of an interception, of either kind, is written to in this step
WritesTo(before, after) == after.written # before.written

\* what a step may do with a filter: it writes at most once, the whole body,
\* not before the end of the stream and not after the disconnect
OneFullWrite(before, after) ==
    WritesTo(before, after) =>
        /\ before.written = <<>>
        /\ after.stopped
        /\ after.chunks = <<>>
        /\ ~before.disconnected

(* C18: single full-body replacement: for every intercepted response the   *)
(* interceptor writes to the filter at most once, never before the         *)
(* end-of-stream signal and never after the filter was disconnected.       *)
C18_SingleWrite ==
    [][/\ \A p \in Plays : OneFullWrite(play[p], play'[p])
       /\ \A s \in Scripts : OneFullWrite(script[s], script'[s])]_vars

C18_Witness ==
    /\ \E p \in Plays : play[p].written # <<>> /\ play[p].stopped /\ play[p].disconnected
    /\ \E s \in Scripts :
           /\ script[s].written # <<>> /\ script[s].stopped /\ script[s].disconnected
           /\ script[s].written[1].length = script[s].buf.length

(* C19: graceful degradation on caption fetch failure: when the fetch of   *)
(* the primary or of the alternate dub-language caption text rejects, the  *)
(* text signal is skipped and the metadata rewrite is not aborted.         *)
C19_FetchFailureDegrades ==
    \A p \in Plays :
        (play[p].dub_fetch.st = "rejected" \/ play[p].dub_alt_fetch.st = "rejected")
            => play[p].pc # "error"

\* interception p takes its error outcome in this step
PlayFailed(p) == play[p].pc # "error" /\ play'[p].pc = "error"

\* the buffer, the output and the outcome of an interception
Visible(rec) == <<rec.pc, rec.buf, rec.written, rec.disconnected, rec.stopped>>

\* the registry entries keyed by another URL than url, in their order
OtherEntries(reg, url) == SelectSeq(reg, LAMBDA ctx : ctx.url # url)

(* C20: error isolation: an error in the handling of the response of URL u *)
(* leaves every registry entry keyed by another URL present and in the     *)
(* same relative order, and changes neither the buffer nor the output nor  *)
(* the outcome of any other interceptor in flight.                         *)
C20_ErrorIsolation ==
    [][/\ \A s \in Scripts :
              Failed(s) =>
                  /\ OtherEntries(INTERCEPT', script[s].url)
                         = OtherEntries(INTERCEPT, script[s].url)
                  /\ \A t \in Scripts \ {s} : script'[t] = script[t]
                  /\ \A p \in Plays : Visible(play'[p]) = Visible(play[p])
       /\ \A p \in Plays :
              PlayFailed(p) =>
                  /\ INTERCEPT' = INTERCEPT
                  /\ \A q \in Plays \ {p} : play'[q] = play[q]
                  /\ script' = script]_vars

C20_Witness ==
    \E s \in Scripts :
        /\ script[s].pc = "error"
        /\ script[s].url = <<"B", "de-DE">>
        /\ Len(INTERCEPT) = 2
        /\ INTERCEPT[1].url = <<"B", "en-US">>
        /\ INTERCEPT[2].url = <<"B", "es-ES">>

\* the rewrite s has its adjustment: both durations of its context resolved
AdjustmentKnown(s) ==
    /\ script[s].pc = "await_alt_duration"
    /\ script'[s].pc # "await_alt_duration"
    /\ play'[script[s].ctx[1].media].alt_duration.st = "fulfilled"

(* C22: a format mismatch is not fatal: when the intercepted caption body  *)
(* does not contain "Format: Layer,Start,End,", adjust_times returns the   *)
(* body unmodified for every offset, the unmodified body is written to the *)
(* filter, and neither onerror nor unregister is taken.                     *)
C22_FormatMismatch ==
    [][\A s \in Scripts :
          (script[s].stopped /\ ~format_ok(script[s].buf))
          => /\ \A k \in OffsetInputs : adjust_times(script[s].buf, k) = script[s].buf
             /\ AdjustmentKnown(s)
                => /\ script'[s].pc = "written"
                   /\ script'[s].written = <<script[s].buf>>
                   /\ INTERCEPT' = INTERCEPT]_vars

\* a caption without the header, with a Dialogue line, written as received
\* under a non-zero offset while its URL stays registered
C22_Witness ==
    \E s \in Scripts :
        /\ script[s].pc = "written"
        /\ ~format_ok(script[s].buf)
        /\ \E n \in DOMAIN script[s].buf.lines : StartsWithDialogue(script[s].buf.lines[n])
        /\ script[s].adjust # <<0>>
        /\ script[s].written = <<script[s].buf>>
        /\ ~NoEntry(INTERCEPT, script[s].url)

(* C29: frame of the metadata rewrite: the forwarded metadata differs from *)
(* the received metadata only in entries of the subtitles mapping:         *)
(* audioLocale and versions are unchanged, and no language of the received *)
(* caption mapping is removed from it.                                      *)
C29_MetadataFrame ==
    \A p \in Plays :
        play[p].written # <<>> =>
            /\ Forwarded(p).audioLocale = Received(p).audioLocale
            /\ Forwarded(p).versions = Received(p).versions
            /\ [Forwarded(p) EXCEPT !.subtitles = Received(p).subtitles] = Received(p)
            /\ Languages(Received(p).subtitles) \subseteq Languages(Forwarded(p).subtitles)

\* a reconciled descriptor that gained a language and kept the three it had
C29_Witness ==
    \E p \in Plays :
        /\ Reconciled(p)
        /\ Cardinality(Languages(Received(p).subtitles)) = 3
        /\ Languages(Received(p).subtitles) \subseteq Languages(Forwarded(p).subtitles)
        /\ Languages(Forwarded(p).subtitles) # Languages(Received(p).subtitles)
        /\ Forwarded(p).subtitles # Received(p).subtitles

\* both duration promises of the context of rewrite s are fulfilled after the step
DurationsResolved(s) ==
    /\ play'[script'[s].ctx[1].media].duration.st = "fulfilled"
    /\ play'[script'[s].ctx[1].media].alt_duration.st = "fulfilled"

(* C28: reconciler ordering: a caption rewrite adjusts and writes its      *)
(* script only after both duration values have resolved, has an adjustment *)
(* (duration offset, then text comparison) only then, and ends in exactly  *)
(* one terminal outcome, body written or error: never both, never twice.   *)
C28_Ordering ==
    [][\A s \in Scripts :
          /\ script'[s].pc = "written" => script'[s].adjust # <<>> /\ Len(script'[s].written) = 1
          /\ script'[s].adjust # <<>> => DurationsResolved(s)
          /\ script'[s].pc = "error" => script'[s].written = <<>>
          /\ script'[s].written # <<>> => script'[s].pc = "written"
          /\ script[s].pc \in {"written", "error"} => script'[s] = script[s]]_vars

\* a rewrite that ended written, adjusted by an offset found by text comparison
C28_Witness ==
    \E s \in Scripts :
        /\ script[s].pc = "written"
        /\ play[script[s].ctx[1].media].duration.st = "fulfilled"
        /\ play[script[s].ctx[1].media].alt_duration.st = "fulfilled"
        /\ script[s].adjust # <<>>
        /\ script[s].adjust[1] #
               calculate_duration_adjustment(play[script[s].ctx[1].media].duration.v[1],
                                             play[script[s].ctx[1].media].alt_duration.v[1])

\* the chunks of a response put together in the order of their delivery
RECURSIVE InDeliveryOrder(_)
InDeliveryOrder(chunks) ==
    IF chunks = <<>> THEN EmptyString
    ELSE Concat(Head(chunks), InDeliveryOrder(Tail(chunks)))

\* oncomplete of the caption response s is called in this step
ScriptCompletes(s) ==
    script[s].pc # "await_duration" /\ script'[s].pc = "await_duration"

\* oncomplete of the metadata response p is called in this step
PlayCompletes(p) == play[p].raw = <<>> /\ play'[p].raw # <<>>

(* C26: buffering order: the body handed to oncomplete is the              *)
(* concatenation of all data chunks of the response in delivery order, and *)
(* oncomplete is called only after the end-of-stream signal and at most    *)
(* once per response.                                                       *)
C26_BufferingOrder ==
    [][/\ \A s \in Scripts :
             /\ ScriptCompletes(s)
                => /\ ~script[s].stopped /\ script'[s].stopped
                   /\ script[s].chunks = <<>>
                   /\ script'[s].buf = InDeliveryOrder(AssetChunks(script[s].url))
                   /\ script'[s].written = <<>>
             /\ script[s].stopped => script'[s].stopped /\ script'[s].buf = script[s].buf
       /\ \A p \in Plays :
             /\ PlayCompletes(p)
                => /\ ~play[p].stopped /\ play'[p].stopped
                   /\ play[p].chunks = <<>>
                   /\ play'[p].buf = <<PlayBody(play[p].guid)>>
             /\ play[p].stopped => play'[p].stopped /\ play'[p].buf = play[p].buf]_vars

\* oncomplete holds a caption body that came in two chunks, in their order
C26_Witness ==
    \E s \in Scripts :
        /\ script[s].pc = "await_duration"
        /\ script[s].stopped
        /\ Len(AssetChunks(script[s].url)) = 2
        /\ AssetChunks(script[s].url)[1] # AssetChunks(script[s].url)[2]
        /\ script[s].buf = Concat(AssetChunks(script[s].url)[1], AssetChunks(script[s].url)[2])

\* the URLs interception p has fetched so far
FetchedUrls(p) == {play[p].fetched[i].url : i \in DOMAIN play[p].fetched}

\* the fetches oncomplete of interception p has issued when it has come to pc
DerivedFetches(p) ==
    LET raw == Received(p)
        dub_lang == raw.audioLocale
        alt_subs == PlayBody(alt_guid(raw)).subtitles
    IN  IF GuidThrows(raw) \/ AltGuidThrows(raw) THEN {}
        ELSE IF guid(raw) = alt_guid(raw) THEN {}
        ELSE {PlayUrl(alt_guid(raw))}
        \cup (IF play[p].dub_fetch.st # "none" /\ HasOwnProperty(raw.subtitles, dub_lang)
              THEN {Lookup(raw.subtitles, dub_lang)[1].url} ELSE {})
        \cup (IF play[p].dub_fetch.st # "none" /\ HasOwnProperty(alt_subs, dub_lang)
              THEN {Lookup(alt_subs, dub_lang)[1].url} ELSE {})
        \cup (IF play[p].duration.st # "none"
              THEN {ObjectUrl(guid(raw)), ObjectUrl(alt_guid(raw))} ELSE {})

(* C25: header reuse: every fetch derived from an intercepted metadata     *)
(* request (the alternate metadata, the two dub-language caption texts,    *)
(* the two duration lookups) carries exactly the header set of the         *)
(* original request, unmodified.                                            *)
C25_HeaderReuse ==
    \A p \in Plays :
        play[p].stopped /\ play[p].buf # <<>> =>
            /\ FetchedUrls(p) = DerivedFetches(p)
            /\ \A i \in DOMAIN play[p].fetched :
                   LET requestHeaders == RequestHeaders(play[p].guid)
                   IN  play[p].fetched[i].headers =
                           {<<Lower(requestHeaders[n].name), requestHeaders[n].value>> :
                                n \in DOMAIN requestHeaders}

\* an interception that issued all five derived fetches
C25_Witness ==
    \E p \in Plays :
        /\ play[p].pc = "written"
        /\ Len(play[p].fetched) = 5
        /\ Cardinality(FetchedUrls(p)) = 5
        /\ \A i \in 1..5 : <<"authorization", play[p].guid>> \in play[p].fetched[i].headers

\* the caption URLs whose fetch interception p issues in this step
CaptionFetches(p) ==
    {play'[p].fetched[i].url : i \in (DOMAIN play'[p].fetched) \ (DOMAIN play[p].fetched)}
        \ ({PlayUrl(g) : g \in PlayGuids} \cup {ObjectUrl(g) : g \in PlayGuids})

(* C30: the coordinator never rewrites its own reference text: whenever a  *)
(* metadata interception issues its own fetch of a caption URL (the        *)
(* primary or the alternate dub-language caption), the registry holds no   *)
(* PendingRewrite for that URL, under any interleaving of interceptions.   *)
C30_OwnFetchNotRewritten ==
    [][\A p \in Plays : \A url \in CaptionFetches(p) : NoEntry(INTERCEPT, url)]_vars

\* the format tag of the caption asset that rewrite s substitutes
FormatTag(s) == Lookup(script[s].ctx[1].alt_subs, script[s].ctx[1].lang)[1].format

(* C27: only "ass"-format caption assets are timing-adjusted: a            *)
(* substituted caption asset whose format tag is not "ass" is delivered    *)
(* verbatim, with no timestamp rewritten, whatever its body contains.      *)
C27_OnlyAssAdjusted ==
    \A s \in Scripts :
        (script[s].written # <<>> /\ FormatTag(s) # "ass")
        => script[s].written = <<script[s].buf>>

\* both caption-text promises of interception p are fulfilled after the step
TextsFulfilled(p) ==
    /\ play'[p].dub_fetch.st = "fulfilled"
    /\ play'[p].dub_alt_fetch.st = "fulfilled"

Contexts ==
    {INTERCEPT[i] : i \in DOMAIN INTERCEPT}
    \cup {script[s].ctx[1] : s \in {t \in Scripts : script[t].ctx # <<>>}}

(* C35: the own-map snapshot stored in every PendingRewrite equals the     *)
(* descriptor's caption map as received, before any substitution of that   *)
(* interception, so the text comparison reads the original dub-language    *)
(* caption entry even when the dub language has been replaced in the       *)
(* forwarded metadata; later mutation of the descriptor never changes a    *)
(* stored snapshot.                                                         *)
C35_SnapshotAsReceived ==
    \A ctx \in Contexts :
        /\ ctx.subs = Received(ctx.media).subtitles
        /\ Lookup(ctx.subs, Received(ctx.media).audioLocale)
               = Lookup(Received(ctx.media).subtitles, Received(ctx.media).audioLocale)

\* the dub-language entry was replaced in the forwarded metadata and the
\* snapshot of the rewrite in flight still holds the entry as received
C35_Witness ==
    \E s \in Scripts :
        /\ script[s].pc = "written"
        /\ LET ctx == script[s].ctx[1]
               dub_lang == Received(ctx.media).audioLocale
           IN  /\ Lookup(ctx.subs, dub_lang) # <<>>
               /\ Lookup(ctx.subs, dub_lang)[1].url = <<play[ctx.media].guid, dub_lang>>
               /\ Lookup(Forwarded(ctx.media).subtitles, dub_lang)[1].url # <<play[ctx.media].guid, dub_lang>>

\* the offset calculate_adjustment returns for a context whose two duration
\* promises are fulfilled
ChosenOffset(ctx) ==
    calculate_adjustment(play[ctx.media].duration.v[1], play[ctx.media].alt_duration.v[1],
                         play[ctx.media].raw[1].audioLocale, ctx.subs, ctx.alt_subs,
                         play[ctx.media].dub_fetch.v, play[ctx.media].dub_alt_fetch.v)

\* the contexts registered by interception p
ContextsOf(p) == {ctx \in Contexts : ctx.media = p}

-----------------------------------------------------------------------------
(* The registry on its own: contexts with fresh URLs are registered one    *)
(* after the other, beyond the capacity; URLs are unregistered and looked  *)
(* up in between                                                           *)

AssetUrl(n) == <<"asset", n>>

\* the URLs that are unregistered and looked up
ProbedUrls == {AssetUrl(1), AssetUrl(2), AssetUrl(MAX_INTERCEPT), AssetUrl(MAX_INTERCEPT + 1)}

RegistryInit ==
    /\ INTERCEPT = <<>>
    /\ play = <<>>
    /\ script = <<>>
    /\ pure = [pc |-> "registry", op |-> "none", registered |-> 0, removed |-> FALSE,
               ctx |-> <<>>, url |-> <<>>, found |-> <<>>]

\* ScriptInterceptor.register(ctx), ctx with a URL not registered before
RegistryRegister ==
    /\ pure.registered < MaxRegistered
    /\ LET ctx == ScriptRewriteContext(AssetUrl(pure.registered + 1), 0, "en-US", <<>>, <<>>)
       IN  /\ INTERCEPT' = register(INTERCEPT, ctx)
           /\ pure' = [pure EXCEPT !.op = "register", !.registered = pure.registered + 1,
                                   !.ctx = <<ctx>>, !.url = <<>>, !.found = <<>>]
    /\ UNCHANGED <<play, script>>

\* ScriptInterceptor.unregister(url)
RegistryUnregister ==
    /\ \E url \in ProbedUrls :
          /\ INTERCEPT' = unregister(INTERCEPT, url)
          /\ pure' = [pure EXCEPT !.op = "unregister", !.url = <<url>>, !.ctx = <<>>,
                                  !.found = <<>>,
                                  !.removed = pure.removed \/ ~NoEntry(INTERCEPT, url)]
    /\ UNCHANGED <<play, script>>

\* ScriptInterceptor.context_for(url)
RegistryLookup ==
    /\ \E url \in ProbedUrls :
          pure' = [pure EXCEPT !.op = "lookup", !.url = <<url>>, !.ctx = <<>>,
                               !.found = context_for(INTERCEPT, url)]
    /\ UNCHANGED <<INTERCEPT, play, script>>

RegistryNext == RegistryRegister \/ RegistryUnregister \/ RegistryLookup

SpecRegistry == RegistryInit /\ [][RegistryNext]_vars

(* C15: the registry bound: in every reachable state, after any sequence   *)
(* of register, unregister and lookup operations, the registry holds at    *)
(* most 50 PendingRewrite entries.                                         *)
C15_RegistryBound == Len(INTERCEPT) <= 50

C15_Witness ==
    /\ pure.registered > 50
    /\ pure.op = "register"
    /\ Len(INTERCEPT) = 50

(* C16: oldest-first eviction: after 51 PendingRewrites with distinct URLs *)
(* were registered, the first-registered URL is not found by lookup while  *)
(* each of the other 50 URLs is; a register on a full registry removes     *)
(* exactly the oldest entry and keeps the rest in registration order.      *)
C16_OldestFirst ==
    [][/\ (pure'.registered = 51 /\ ~pure'.removed) =>
              /\ context_for(INTERCEPT', AssetUrl(1)) = <<>>
              /\ \A n \in 2..51 : context_for(INTERCEPT', AssetUrl(n)) # <<>>
       /\ (pure'.op = "lookup" /\ pure.registered = 51 /\ ~pure.removed) =>
              (pure'.found = <<>> <=> pure'.url = <<AssetUrl(1)>>)
       /\ (pure'.op = "register" /\ Len(INTERCEPT) = 50) =>
              INTERCEPT' = Append(Tail(INTERCEPT), pure'.ctx[1])
       /\ (pure'.op = "register" /\ Len(INTERCEPT) < 50) =>
              INTERCEPT' = Append(INTERCEPT, pure'.ctx[1])]_vars

C16_Witness ==
    /\ pure.registered = 51
    /\ ~pure.removed
    /\ pure.op = "lookup"
    /\ pure.url = <<AssetUrl(1)>>
    /\ pure.found = <<>>

-----------------------------------------------------------------------------
(* The registry with duplicate URLs: each of the first registrations takes *)
(* a fresh URL or the URL of the first one; the contexts are told apart by *)
(* their serial number (media)                                              *)

DuplicateInit ==
    /\ INTERCEPT = <<>>
    /\ play = <<>>
    /\ script = <<>>
    /\ pure = [pc |-> "duplicates", op |-> "none", registered |-> 0,
               ctx |-> <<>>, url |-> <<>>, found |-> <<>>]

\* ScriptInterceptor.register(ctx)
DuplicateRegister ==
    /\ pure.registered < MaxRegistered
    /\ LET n == pure.registered + 1
       IN  \E url \in {AssetUrl(n)} \cup (IF n <= MaxDuplicated THEN {AssetUrl(1)} ELSE {}) :
              LET ctx == ScriptRewriteContext(url, n, "en-US", <<>>, <<>>)
              IN  /\ INTERCEPT' = register(INTERCEPT, ctx)
                  /\ pure' = [pure EXCEPT !.op = "register", !.registered = n,
                                          !.ctx = <<ctx>>, !.url = <<>>, !.found = <<>>]
    /\ UNCHANGED <<play, script>>

\* ScriptInterceptor.unregister(url)
DuplicateUnregister ==
    /\ \E url \in {AssetUrl(1), AssetUrl(2)} :
          /\ INTERCEPT' = unregister(INTERCEPT, url)
          /\ pure' = [pure EXCEPT !.op = "unregister", !.url = <<url>>, !.ctx = <<>>,
                                  !.found = <<>>]
    /\ UNCHANGED <<play, script>>

\* ScriptInterceptor.context_for(url)
DuplicateLookup ==
    /\ \E url \in {AssetUrl(1), AssetUrl(2)} :
          pure' = [pure EXCEPT !.op = "lookup", !.url = <<url>>, !.ctx = <<>>,
                               !.found = context_for(INTERCEPT, url)]
    /\ UNCHANGED <<INTERCEPT, play, script>>

DuplicateNext == DuplicateRegister \/ DuplicateUnregister \/ DuplicateLookup

SpecDuplicates == DuplicateInit /\ [][DuplicateNext]_vars

\* the serial numbers of the entries of reg, and of those keyed by url
Serials(reg) == {reg[i].media : i \in DOMAIN reg}
SerialsOf(reg, url) == {reg[i].media : i \in {j \in DOMAIN reg : reg[j].url = url}}

\* the entries of reg are in the order of their registration
InRegistrationOrder(reg) ==
    \A i, j \in DOMAIN reg : i < j => reg[i].media < reg[j].media

(* C36: duplicate URLs in the registry: register never deduplicates by     *)
(* URL; when several entries share a URL, lookup returns the               *)
(* earliest-registered one still present, and unregister(url) removes all  *)
(* of them while leaving every entry with a different URL in place.        *)
C36_Duplicates ==
    [][/\ pure'.op = "register" =>
              /\ INTERCEPT'[Len(INTERCEPT')] = pure'.ctx[1]
              /\ Len(INTERCEPT') = IF Len(INTERCEPT) < 50 THEN Len(INTERCEPT) + 1 ELSE 50
              /\ Len(INTERCEPT) < 50 => Serials(INTERCEPT')
                                            = Serials(INTERCEPT) \cup {pure'.ctx[1].media}
       /\ pure'.op = "lookup" =>
              LET present == SerialsOf(INTERCEPT, pure'.url[1])
              IN  IF present = {} THEN pure'.found = <<>>
                  ELSE /\ pure'.found # <<>>
                       /\ pure'.found[1].url = pure'.url[1]
                       /\ \A n \in present : pure'.found[1].media <= n
       /\ pure'.op = "unregister" =>
              /\ SerialsOf(INTERCEPT', pure'.url[1]) = {}
              /\ Serials(INTERCEPT') = Serials(INTERCEPT) \ SerialsOf(INTERCEPT, pure'.url[1])
              /\ Len(INTERCEPT') = Cardinality(Serials(INTERCEPT'))
       /\ InRegistrationOrder(INTERCEPT')]_vars

\* three entries share the URL of the first, which was evicted: the lookup
\* finds the second of them
C36_Witness ==
    /\ pure.op = "lookup"
    /\ pure.registered = 51
    /\ pure.url = <<AssetUrl(1)>>
    /\ SerialsOf(INTERCEPT, AssetUrl(1)) = {3, 4}
    /\ pure.found # <<>>
    /\ pure.found[1].media = 3

-----------------------------------------------------------------------------
(* Rewrites in flight while the registry changes: up to MaxInFlight        *)
(* requests, for the metadata of two media that share the alternate B and  *)
(* for B's dub-language caption                                             *)

InFlightGuids == {"A", "C"}
InFlightUrls == {<<"B", "en-US">>}

InFlightNext ==
    \/ \E p \in Plays :
          \/ Seen < MaxInFlight /\ PlayRequestOf(p, InFlightGuids)
          \/ PlayData(p)
          \/ PlayFilterError(p)
          \/ PlayStop(p)
          \/ PlayAltFetched(p)
          \/ PlayDubAltFetched(p)
          \/ PlayReconcile(p)
    \/ \E s \in Scripts :
          \/ Seen < MaxInFlight /\ ScriptRequestOf(s, InFlightUrls)
          \/ ScriptData(s)
          \/ ScriptFilterError(s)
          \/ ScriptStop(s)
          \/ ScriptDuration(s)
          \/ ScriptAltDuration(s)

SpecInFlight == Init /\ [][InFlightNext]_vars

\* the rewrite s is between the request and its terminal outcome
InFlight(s) == script[s].pc \in {"buffering", "await_duration", "await_alt_duration"}

-----------------------------------------------------------------------------
(* Termination: the interceptors under a network that answers *)

\* the filter of a /play response delivers its chunks and then its
\* end-of-stream, or an error
PlayFilterDelivers(p) == PlayData(p) \/ PlayStop(p) \/ PlayFilterError(p)

\* every fetch a PlayInterceptor awaits settles, and its continuation runs
PlayFetchesSettle(p) == PlayAltFetched(p) \/ PlayDubAltFetched(p) \/ PlayReconcile(p)

\* the filter of a caption response delivers its chunks and then its
\* end-of-stream, or an error
ScriptFilterDelivers(s) == ScriptData(s) \/ ScriptStop(s) \/ ScriptFilterError(s)

\* weak fairness of ScriptAltDuration(s), with its enabling condition written
\* as the state it holds in: a rewrite suspended on ctx.alt_duration does not
\* stay suspended forever, the fetch settles and the continuation runs
AltDurationSettles(s) ==
    \/ []<>(script[s].pc # "await_alt_duration")
    \/ []<><<ScriptAltDuration(s)>>_vars

\* the network answers: no filter and no fetch stays silent forever
NetworkAnswers ==
    /\ \A p \in Plays : WF_vars(PlayFilterDelivers(p)) /\ WF_vars(PlayFetchesSettle(p))
    /\ \A s \in Scripts :
          /\ WF_vars(ScriptFilterDelivers(s))
          /\ WF_vars(ScriptDuration(s))
          /\ AltDurationSettles(s)

\* the media and the caption assets of the behaviours checked for termination:
\* a dub with its original, the original itself, a malformed response, and
\* a caption with a dialogue line that can and one that cannot be adjusted
LiveGuids == {"A", "B", "X"}
LiveUrls == {<<"B", "en-US">>, <<"B", "es-ES">>}

\* the two listeners and every handler and continuation of the interceptors
LiveNext ==
    \/ \E p \in Plays :
          \/ Seen < MaxRequests /\ PlayRequestOf(p, LiveGuids)
          \/ PlayData(p)
          \/ PlayFilterError(p)
          \/ PlayStop(p)
          \/ PlayAltFetched(p)
          \/ PlayDubAltFetched(p)
          \/ PlayReconcile(p)
    \/ \E s \in Scripts :
          \/ Seen < MaxRequests /\ ScriptRequestOf(s, LiveUrls)
          \/ ScriptData(s)
          \/ ScriptFilterError(s)
          \/ ScriptStop(s)
          \/ ScriptDuration(s)
          \/ ScriptAltDuration(s)

SpecLive == Init /\ [][LiveNext]_vars /\ NetworkAnswers

\* C32: when every fetch settles and every filter delivers its end-of-stream
\* or an error, every interceptor that was constructed eventually
\* disconnects its filter
C32_Disconnects ==
    /\ \A p \in Plays : (play[p].pc # "idle") ~> play[p].disconnected
    /\ \A s \in Scripts :
          (script[s].pc \notin {"idle", "passthrough"}) ~> script[s].disconnected

\* a /play interception that awaited its fetches has disconnected, and so
\* has a caption rewrite whose stream ended with data
C32_Witness ==
    /\ \E p \in Plays : Reconciled(p) /\ play[p].disconnected
    /\ \E s \in Scripts :
          script[s].pc \in {"written", "error"} /\ script[s].stopped /\ script[s].disconnected

=============================================================================
